---- MODULE Spec2Model ----
(***************************************************************************)
(* Civica data-processing pipeline: CalgaryDataProcessor.process_data      *)
(* (src/src/data_processing/processor.py) with its validators, file        *)
(* manager and quality reporter.                                           *)
(*                                                                         *)
(* The specifications of the module:                                       *)
(*   Spec       the pipeline, one action per stage of process_data, run    *)
(*              over a bounded family of on-disk datasets;                 *)
(*   SpecUnit   the validators and the two geometry-fix routines called    *)
(*              directly on a bounded family of collections;               *)
(*   SpecPair   the routines that take a zoning and a parcel collection;   *)
(*   SpecLarge  the geometry-fix routines around PARALLEL_THRESHOLD;       *)
(*   SpecRuns   process_data runs while the raw files change;              *)
(*   SpecReport DataQualityReporter.generate_report called directly;       *)
(*   SpecFetch  DataManager.get_parcel_boundaries.                         *)
(***************************************************************************)
EXTENDS Integers, Sequences, FiniteSets, TLC

VARIABLES
    files,        \* set of input files that exist under data/raw
    raw,          \* raw[ds]: the collection stored in the shapefile of ds, with its mtime
    cache,        \* cache[ds]: the .parquet counterpart of ds (NoCache when absent)
    now,          \* logical clock used to stamp file modification times
    pc,           \* last completed stage of the current process_data call
    trace,        \* stages entered by the current process_data call, in order
    zoning_gdf,   \* local variable zoning_gdf of process_data
    parcels_gdf,  \* local variable parcels_gdf of process_data
    joined_gdf,   \* local variable joined_gdf of process_data
    error,        \* exception that ended the current call (NoError when none)
    log,          \* warnings and errors logged by the current call
    reports,      \* report files written under data/reports
    output,       \* content of calgary_parcels_with_zoning.geojson (NoOutput when absent)
    u_gdf,        \* SpecUnit: the collection the caller holds
    u_calls,      \* SpecUnit: names of the routines called so far
    u_ret,        \* SpecUnit: results of those calls, in order
    remote,       \* DataManager: number of records of the remote parcel dataset
    dm_cache,     \* DataManager: data/raw/parcel_boundaries.geojson
    dm_pc,        \* DataManager: position of the get_parcel_boundaries call
    offset,       \* local variable offset of get_parcel_boundaries
    all_data,     \* local variable all_data of get_parcel_boundaries
    requests,     \* offsets of the chunks requested by the call, in order
    dm_ret        \* what the get_parcel_boundaries call returned or raised

vars == <<files, raw, cache, now, pc, trace, zoning_gdf, parcels_gdf, joined_gdf,
          error, log, reports, output, u_gdf, u_calls, u_ret,
          remote, dm_cache, dm_pc, offset, all_data, requests, dm_ret>>

fetchVars == <<remote, dm_cache, dm_pc, offset, all_data, requests, dm_ret>>

pipelineVars == <<files, raw, cache, now, pc, trace, zoning_gdf, parcels_gdf,
                  joined_gdf, error, log, reports, output>>

unitVars == <<u_gdf, u_calls, u_ret>>

(***************************************************************************)
(* Bounds of the model.                                                    *)
(***************************************************************************)
\* Most features in the zoning dataset of the pipeline specification.
MaxRows == 2

\* Most features in the parcel dataset of the pipeline specification.
MaxParcelRows == 1

\* Most features in a collection handed to a routine in SpecUnit.
MaxUnitRows == 3

\* Most direct calls in one behaviour of SpecUnit or SpecPair.
MaxCalls == 2

\* Most features in the zoning collection of SpecPair.
MaxPairZoning == 4

\* Most features in the parcel collection of SpecPair.
MaxPairParcels == 1

\* Last value of the clock (file modification times, report names) in SpecRuns.
MaxClock == 2

\* Most full chunks the remote parcel dataset holds in SpecFetch.
MaxChunks == 2

(***************************************************************************)
(* Strings.  Column names and attribute values are sequences of            *)
(* one-character strings, so that prefixes and character classes are       *)
(* computed and not looked up.                                             *)
(***************************************************************************)
SeqToSet(s) == {s[i] : i \in 1..Len(s)}

\* Column names (config.py and the geometry / join columns of geopandas).
lu_bylaw    == <<"l","u","_","b","y","l","a","w">>
lu_code     == <<"l","u","_","c","o","d","e">>
dc_bylaw    == <<"d","c","_","b","y","l","a","w">>
dc_site_no  == <<"d","c","_","s","i","t","e","_","n","o">>
roll_numbe  == <<"r","o","l","l","_","n","u","m","b","e">>
address     == <<"a","d","d","r","e","s","s">>
land_use_d  == <<"l","a","n","d","_","u","s","e","_","d">>
property_t  == <<"p","r","o","p","e","r","t","y","_","t">>
geometry    == <<"g","e","o","m","e","t","r","y">>
index_right == <<"i","n","d","e","x","_","r","i","g","h","t">>
comments    == <<"c","o","m","m","e","n","t","s">>

REQUIRED_ZONING_COLUMNS == <<lu_bylaw, lu_code, dc_bylaw, dc_site_no>>
REQUIRED_PARCEL_COLUMNS == <<roll_numbe, address, land_use_d, property_t>>
REQUIRED_SHAPEFILE_EXTENSIONS == <<".shx", ".dbf", ".prj">>
TARGET_CRS == "EPSG:32612"

\* Attribute values: a string of characters, or null (None / NaN).
NULL == [null |-> TRUE, chars |-> <<>>]
Str(s) == [null |-> FALSE, chars |-> s]

(***************************************************************************)
(* The geometry engine (shapely / GEOS), over a catalogue of shapes.       *)
(*   sqA, sqB, sqAB  valid squares covering cell 1, cell 2, cells 1 and 2  *)
(*   sqC             a valid square covering cell 3                        *)
(*   bowtie          a self-intersecting polygon over cells 1 and 2        *)
(*   spike           an invalid polygon of zero area                       *)
(*   emptyPoly       POLYGON EMPTY                                         *)
(*   tri, bowtieMP, line   results of repairing bowtie and spike           *)
(*   GeomNone        a missing geometry (None)                             *)
(***************************************************************************)
GeomNone == "None"

\* shapely: geom.is_valid; GEOS reports an empty geometry as valid.
is_valid(g) == g \in {"sqA", "sqB", "sqAB", "sqC", "emptyPoly", "tri", "bowtieMP", "line"}

\* shapely: geom.is_empty
is_empty(g) == g = "emptyPoly"

\* GeoSeries.is_valid / GeoSeries.is_empty: a missing geometry gives False.
series_is_valid(g) == g # GeomNone /\ is_valid(g)

series_is_empty(g) == g # GeomNone /\ is_empty(g)

\* shapely: geom.buffer(0)
buffer0(g) ==
    CASE g = "bowtie" -> "tri"
      [] g = "spike"  -> "emptyPoly"
      [] OTHER        -> g

\* shapely.validation.make_valid
make_valid(g) ==
    CASE g = "bowtie" -> "bowtieMP"
      [] g = "spike"  -> "line"
      [] OTHER        -> g

(***************************************************************************)
(* Collections (GeoDataFrames): the ordered column names, the rows and the *)
(* CRS.  A row holds its geometry, its index_right (0 when the frame has   *)
(* no such column) and its attributes, a function over the other columns.  *)
(***************************************************************************)
CrsNone == "None"

NoMatch == -1

AttrCols(cols) == SeqToSet(cols) \ {geometry, index_right}

Gdf(cols, rows, crs) == [cols |-> cols, rows |-> rows, crs |-> crs]

Row(g, attrs) == [geom |-> g, index_right |-> 0, attrs |-> attrs]

NoGdf == Gdf(<<>>, <<>>, "unset")

RECURSIVE SelectSeq2(_, _)
\* The subsequence of rows whose positions are in keep, in order.
SelectSeq2(rows, keep) ==
    IF rows = <<>> THEN <<>>
    ELSE LET n == Len(rows)
             front == SelectSeq2(SubSeq(rows, 1, n - 1), keep)
         IN IF n \in keep THEN Append(front, rows[n]) ELSE front

\* Exceptions.
NoError == [type |-> "none", detail |-> "none"]
Raise(type, detail) == [type |-> type, detail |-> detail]

(***************************************************************************)
(* validators.py                                                           *)
(***************************************************************************)
\* One entry of a validator's issue list: the message's kind, the columns
\* it names and the count it reports.
Issue(kind, cols, count) == [kind |-> kind, cols |-> cols, count |-> count]

Result(ok, issues) == [ok |-> ok, issues |-> issues]

\* Series.sum() of a boolean column: the number of rows whose flag is set.
CountTrue(flags) == Cardinality({i \in DOMAIN flags : flags[i]})

\* gdf[col].isnull().any() in place of .all().
AnyNull(gdf, col) == \E i \in 1..Len(gdf.rows) : gdf.rows[i].attrs[col].null

\* gdf[col].isnull().all(): true of a frame without rows.
AllNull(gdf, col) == \A i \in 1..Len(gdf.rows) : gdf.rows[i].attrs[col].null

RECURSIVE AllNullIssues(_, _)
\* The loop of ColumnValidator.validate over required_columns.
AllNullIssues(gdf, required_columns) ==
    IF required_columns = <<>> THEN <<>>
    ELSE LET col == Head(required_columns)
             rest == AllNullIssues(gdf, Tail(required_columns))
         IN IF col \in SeqToSet(gdf.cols) /\ AllNull(gdf, col)
            THEN <<Issue("all_null", <<col>>, 0)>> \o rest
            ELSE rest

\* ColumnValidator.validate
ColumnValidator_validate(gdf, required_columns) ==
    LET missing_cols == SelectSeq(required_columns,
                                  LAMBDA col : col \notin SeqToSet(gdf.cols))
        issues == (IF missing_cols # <<>>
                   THEN <<Issue("missing", missing_cols, 0)>> ELSE <<>>)
                  \o AllNullIssues(gdf, required_columns)
    IN Result(issues = <<>>, issues)

\* The character class [A-Z0-9-] of the zoning-code pattern.
CodeChars ==
    {"A","B","C","D","E","F","G","H","I","J","K","L","M",
     "N","O","P","Q","R","S","T","U","V","W","X","Y","Z",
     "0","1","2","3","4","5","6","7","8","9","-"}

\* The pattern anchored to the first character: r'^[^A-Z0-9-]'.
StartsWithInvalidChar(v) == ~v.null /\ Len(v.chars) > 0 /\ v.chars[1] \notin CodeChars

\* Series.str.contains(r'[^A-Z0-9-]', na=False) on one value.
ContainsInvalidChar(v) == ~v.null /\ \E i \in 1..Len(v.chars) : v.chars[i] \notin CodeChars

\* ZoningCodeValidator.validate
ZoningCodeValidator_validate(gdf) ==
    IF lu_code \in SeqToSet(gdf.cols)
    THEN LET null_codes == CountTrue([i \in 1..Len(gdf.rows) |-> gdf.rows[i].attrs[lu_code].null])
             empty_codes == CountTrue([i \in 1..Len(gdf.rows) |->
                                gdf.rows[i].attrs[lu_code] = Str(<<>>)])
             invalid_chars == CountTrue([i \in 1..Len(gdf.rows) |->
                                  ContainsInvalidChar(gdf.rows[i].attrs[lu_code])])
             issues == (IF null_codes > 0
                        THEN <<Issue("null_codes", <<lu_code>>, null_codes)>> ELSE <<>>)
                    \o (IF empty_codes > 0
                        THEN <<Issue("empty_codes", <<lu_code>>, empty_codes)>> ELSE <<>>)
                    \o (IF invalid_chars > 0
                        THEN <<Issue("invalid_chars", <<lu_code>>, invalid_chars)>> ELSE <<>>)
         IN Result(issues = <<>>, issues)
    ELSE Result(TRUE, <<>>)

\* What a routine hands back: the exception it raised (NoError when it
\* returned) and the collection it returned.
Returned(gdf) == [raised |-> NoError, gdf |-> gdf]
Raised(err) == [raised |-> err, gdf |-> NoGdf]

HasNullGeometry(gdf) == \E i \in 1..Len(gdf.rows) : gdf.rows[i].geom = GeomNone

\* x.is_valid evaluated by the lambdas on a missing geometry.
NoneTypeError == Raise("AttributeError", "'NoneType' object has no attribute 'is_valid'")

\* gdf.loc[mask, 'geometry'] = geoms: the rows in mask take their geometry from geoms.
SetGeometry(gdf, mask, geoms) ==
    [gdf EXCEPT !.rows = [i \in 1..Len(gdf.rows) |->
        IF i \in mask THEN [gdf.rows[i] EXCEPT !.geom = geoms[i]] ELSE gdf.rows[i]]]

\* lambda x: make_valid(x) if not x.is_valid else x
MakeValidIfInvalid(x) == IF ~is_valid(x) THEN make_valid(x) ELSE x

\* lambda x: x.buffer(0) if not x.is_valid else x
BufferIfInvalid(x) == IF ~is_valid(x) THEN buffer0(x) ELSE x

\* gdf[~gdf.geometry.is_empty]
\* gdf[gdf.geometry.is_empty]: the negation of the mask left out.
DropEmpty_Inverted(gdf) ==
    [gdf EXCEPT !.rows = SelectSeq2(gdf.rows,
        {i \in 1..Len(gdf.rows) : series_is_empty(gdf.rows[i].geom)})]

\* gdf[~gdf.geometry.is_empty]
DropEmpty(gdf) ==
    [gdf EXCEPT !.rows = SelectSeq2(gdf.rows,
        {i \in 1..Len(gdf.rows) : ~series_is_empty(gdf.rows[i].geom)})]

\* fix_issues with the two steps swapped and buffer(0) as the repair: the
\* empty rows are looked up before the repair, so a geometry the repair
\* empties survives the call and is dropped by the next one.
GeometryValidator_fix_issues_StaleMask(gdf) ==
    IF HasNullGeometry(gdf) THEN Raised(NoneTypeError)
    ELSE LET fixed == SetGeometry(gdf, 1..Len(gdf.rows),
                          [i \in 1..Len(gdf.rows) |-> BufferIfInvalid(gdf.rows[i].geom)])
         IN Returned([fixed EXCEPT !.rows = SelectSeq2(fixed.rows,
                {i \in 1..Len(gdf.rows) : ~series_is_empty(gdf.rows[i].geom)})])

\* GeometryValidator.fix_issues
GeometryValidator_fix_issues(gdf) ==
    IF HasNullGeometry(gdf) THEN Raised(NoneTypeError)
    ELSE Returned(DropEmpty(SetGeometry(gdf, 1..Len(gdf.rows),
                      [i \in 1..Len(gdf.rows) |-> MakeValidIfInvalid(gdf.rows[i].geom)])))

(***************************************************************************)
(* utils.py: FileManager                                                   *)
(***************************************************************************)
Datasets == {"zoning", "parcels"}

File(ds, ext) == [ds |-> ds, ext |-> ext]

zoning_shp == File("zoning", ".shp")
parcels_shp == File("parcels", ".shp")

\* The eight files validate_input_files looks for.
AllFiles == {File(ds, ext) : ds \in Datasets, ext \in {".shp", ".shx", ".dbf", ".prj"}}

\* The companion files in the order of the two nested loops.
CompanionFiles ==
    [i \in 1..(2 * Len(REQUIRED_SHAPEFILE_EXTENSIONS)) |->
        File(IF i <= Len(REQUIRED_SHAPEFILE_EXTENSIONS) THEN "zoning" ELSE "parcels",
             REQUIRED_SHAPEFILE_EXTENSIONS[((i - 1) % Len(REQUIRED_SHAPEFILE_EXTENSIONS)) + 1])]

FileNotFound(f) == Raise("FileNotFoundError", f)

\* validate_input_files without the loop over the companion files.
validate_input_files_ShpOnly(present) ==
    IF zoning_shp \notin present THEN [raised |-> FileNotFound(zoning_shp), paths |-> <<>>]
    ELSE IF parcels_shp \notin present THEN [raised |-> FileNotFound(parcels_shp), paths |-> <<>>]
    ELSE [raised |-> NoError, paths |-> <<zoning_shp, parcels_shp>>]

\* FileManager.validate_input_files
validate_input_files(present) ==
    IF zoning_shp \notin present THEN [raised |-> FileNotFound(zoning_shp), paths |-> <<>>]
    ELSE IF parcels_shp \notin present THEN [raised |-> FileNotFound(parcels_shp), paths |-> <<>>]
    ELSE LET absent == {i \in DOMAIN CompanionFiles : CompanionFiles[i] \notin present}
         IN IF absent # {}
            THEN LET first == CHOOSE i \in absent : \A j \in absent : i <= j
                 IN [raised |-> FileNotFound(CompanionFiles[first]), paths |-> <<>>]
            ELSE [raised |-> NoError, paths |-> <<zoning_shp, parcels_shp>>]

(***************************************************************************)
(* processor.py: the helpers of CalgaryDataProcessor                       *)
(***************************************************************************)
NoCache == [gdf |-> NoGdf, mtime |-> -1]

\* gdf[columns + ['geometry']]: the frame restricted to these columns.
Project(gdf, columns) ==
    [gdf EXCEPT !.cols = columns,
                !.rows = [i \in 1..Len(gdf.rows) |->
                    [gdf.rows[i] EXCEPT !.attrs =
                        [c \in AttrCols(columns) |-> gdf.rows[i].attrs[c]]]]]

\* gpd.read_parquet(parquet_path, columns=usecols): geopandas refuses a
\* column selection that leaves out every geometry column.
read_parquet(stored, columns) ==
    IF columns = <<>> THEN Returned(stored)
    ELSE IF geometry \notin SeqToSet(columns)
    THEN Raised(Raise("ValueError", "No geometry columns are included in the columns read"))
    ELSE IF ~(SeqToSet(columns) \subseteq SeqToSet(stored.cols))
    THEN Raised(Raise("ArrowInvalid", "No match for FieldRef"))
    ELSE Returned(Project(stored, columns))

\* parquet_path.exists() and os.path.getmtime(parquet_path) > shp_mtime
CacheIsFresh(cached, shp_mtime) == cached # NoCache /\ cached.mtime > shp_mtime

\* CalgaryDataProcessor._read_geodata: what it returns or raises, and the
\* cache file it leaves behind.  usecols = <<>> stands for usecols=None.
read_geodata(shp, cached, usecols, clock) ==
    IF CacheIsFresh(cached, shp.mtime)
    THEN [ret |-> read_parquet(cached.gdf, usecols), cache |-> cached,
          log |-> <<[level |-> "info", msg |-> "Reading (cached Parquet)", count |-> 0]>>]
    ELSE IF usecols # <<>> /\ ~(SeqToSet(usecols) \subseteq SeqToSet(shp.gdf.cols))
    THEN [ret |-> Raised(Raise("KeyError", "not in index")), cache |-> cached,
          log |-> <<[level |-> "info", msg |-> "Reading (shapefile)", count |-> 0]>>]
    ELSE LET gdf == IF usecols # <<>> THEN Project(shp.gdf, usecols \o <<geometry>>)
                    ELSE shp.gdf
         IN [ret |-> Returned(gdf), cache |-> [gdf |-> gdf, mtime |-> clock],
             log |-> <<[level |-> "info", msg |-> "Reading (shapefile)", count |-> 0],
                       [level |-> "info", msg |-> "Saving Parquet cache", count |-> 0]>>]

\* Size above which _validate_and_fix_geometries repairs in a worker pool.
PARALLEL_THRESHOLD == 10000

\* pool.map is handed a lambda, which the pool cannot pickle for its workers.
PicklingError == Raise("PicklingError", "Can't pickle <lambda>")

InvalidMask(gdf) == {i \in 1..Len(gdf.rows) : ~series_is_valid(gdf.rows[i].geom)}

\* A collection too long to list: rows are its first features, followed by
\* more features that each hold a valid, non-empty polygon.
LargeGdf(gdf, more) ==
    [cols |-> gdf.cols, rows |-> gdf.rows, crs |-> gdf.crs, more |-> more]

\* len(gdf)
FeatureCount(gdf) ==
    IF "more" \in DOMAIN gdf THEN Len(gdf.rows) + gdf.more ELSE Len(gdf.rows)

\* gdf.loc[invalid_mask, 'geometry'] = gdf.loc[invalid_mask, 'geometry'].apply(...)
\* followed by gdf[~gdf.geometry.is_empty]
sequential_fix(gdf, invalid_mask) ==
    IF \E i \in invalid_mask : gdf.rows[i].geom = GeomNone THEN Raised(NoneTypeError)
    ELSE Returned(DropEmpty(SetGeometry(gdf, invalid_mask,
                     [i \in invalid_mask |-> BufferIfInvalid(gdf.rows[i].geom)])))

\* CalgaryDataProcessor._validate_and_fix_geometries
validate_and_fix_geometries(gdf) ==
    LET invalid_mask == InvalidMask(gdf)
    IN IF invalid_mask = {} THEN Returned(gdf)
       ELSE IF FeatureCount(gdf) > PARALLEL_THRESHOLD THEN Raised(PicklingError)
       ELSE sequential_fix(gdf, invalid_mask)

\* gdf.to_crs(target_crs) with its result discarded: the caller keeps the
\* collection it had.
to_crs_Discarded(gdf, target_crs) ==
    IF gdf.crs = CrsNone
    THEN Raised(Raise("ValueError", "Cannot transform naive geometries"))
    ELSE Returned(gdf)

\* GeoDataFrame.to_crs(target_crs)
to_crs(gdf, target_crs) ==
    IF gdf.crs = CrsNone
    THEN Raised(Raise("ValueError", "Cannot transform naive geometries"))
    ELSE Returned([gdf EXCEPT !.crs = target_crs])

Info(msg, n) == [level |-> "info", msg |-> msg, count |-> n]
Warning(msg, n) == [level |-> "warning", msg |-> msg, count |-> n]
Error(msg, n) == [level |-> "error", msg |-> msg, count |-> n]

\* _ensure_consistent_crs leaving a collection without CRS as it is
\* (if gdf.crs is not None and gdf.crs != target_crs).
ensure_consistent_crs_SkipUndefined(zoning, parcels) ==
    LET ZMove == zoning.crs # TARGET_CRS /\ zoning.crs # CrsNone
        PMove == parcels.crs # TARGET_CRS /\ parcels.crs # CrsNone
    IN [raised |-> NoError,
        zoning |-> IF ZMove THEN [zoning EXCEPT !.crs = TARGET_CRS] ELSE zoning,
        parcels |-> IF PMove THEN [parcels EXCEPT !.crs = TARGET_CRS] ELSE parcels,
        log |-> (IF ZMove THEN <<Info("Reprojecting zoning data", 0)>> ELSE <<>>)
                \o (IF PMove THEN <<Info("Reprojecting parcels data", 0)>> ELSE <<>>)]

\* CalgaryDataProcessor._ensure_consistent_crs: the pair it returns or the
\* exception it raises, and what it logs.
ensure_consistent_crs(zoning, parcels) ==
    LET z == IF zoning.crs # TARGET_CRS THEN to_crs(zoning, TARGET_CRS) ELSE Returned(zoning)
        zlog == IF zoning.crs # TARGET_CRS THEN <<Info("Reprojecting zoning data", 0)>> ELSE <<>>
        p == IF parcels.crs # TARGET_CRS THEN to_crs(parcels, TARGET_CRS) ELSE Returned(parcels)
        plog == IF parcels.crs # TARGET_CRS THEN <<Info("Reprojecting parcels data", 0)>> ELSE <<>>
    IN IF z.raised # NoError
       THEN [raised |-> z.raised, zoning |-> NoGdf, parcels |-> NoGdf, log |-> zlog]
       ELSE IF p.raised # NoError
       THEN [raised |-> p.raised, zoning |-> NoGdf, parcels |-> NoGdf, log |-> zlog \o plog]
       ELSE [raised |-> NoError, zoning |-> z.gdf, parcels |-> p.gdf, log |-> zlog \o plog]

(***************************************************************************)
(* Spatial predicates of the geometry engine: the cells a shape covers.    *)
(***************************************************************************)
Cells(g) ==
    CASE g = "sqA"      -> {1}
      [] g = "sqB"      -> {2}
      [] g = "sqAB"     -> {1, 2}
      [] g = "sqC"      -> {3}
      [] g = "tri"      -> {1}
      [] g = "bowtieMP" -> {1, 2}
      [] g = "bowtie"   -> {1, 2}
      [] OTHER          -> {}

\* predicate="intersects" in place of "within".
within_Intersects(a, b) == Cells(a) \cap Cells(b) # {}

\* predicate="within": a is inside b; never true of an empty or missing geometry.
within(a, b) == Cells(a) # {} /\ Cells(a) \subseteq Cells(b)

RECURSIVE SortedSeq(_)
\* The members of a set of integers in increasing order.
SortedSeq(S) ==
    IF S = {} THEN <<>>
    ELSE LET m == CHOOSE x \in S : \A y \in S : x <= y
         IN <<m>> \o SortedSeq(S \ {m})

RECURSIVE Flatten(_)
Flatten(ss) == IF ss = <<>> THEN <<>> ELSE Head(ss) \o Flatten(Tail(ss))

suffix_left == <<"_","l","e","f","t">>
suffix_right == <<"_","r","i","g","h","t">>

\* gpd.sjoin(left, right, how="left", predicate="within"): one row per
\* (left row, matching right row), one row with nulls for a left row without
\* a match; index_right is the 0-based position of the right row.
sjoin_left_within(left, right) ==
    LET common == AttrCols(left.cols) \cap AttrCols(right.cols)
        LName(c) == IF c \in common THEN c \o suffix_left ELSE c
        RName(c) == IF c \in common THEN c \o suffix_right ELSE c
        cols == [i \in 1..Len(left.cols) |-> LName(left.cols[i])]
                \o <<index_right>>
                \o SelectSeq([i \in 1..Len(right.cols) |-> RName(right.cols[i])],
                             LAMBDA c : c # geometry)
        lnames == {LName(c) : c \in AttrCols(left.cols)}
        rnames == {RName(c) : c \in AttrCols(right.cols)}
        Matches(i) == {j \in 1..Len(right.rows) :
                          within(left.rows[i].geom, right.rows[j].geom)}
        JoinedRow(i, j) ==
            [geom |-> left.rows[i].geom,
             index_right |-> IF j = 0 THEN NoMatch ELSE j - 1,
             attrs |-> [n \in lnames \cup rnames |->
                 IF n \in lnames
                 THEN left.rows[i].attrs[CHOOSE c \in AttrCols(left.cols) : LName(c) = n]
                 ELSE IF j = 0 THEN NULL
                 ELSE right.rows[j].attrs[CHOOSE c \in AttrCols(right.cols) : RName(c) = n]]]
        RowsOf(i) == IF Matches(i) = {} THEN <<JoinedRow(i, 0)>>
                     ELSE LET js == SortedSeq(Matches(i))
                          IN [k \in 1..Len(js) |-> JoinedRow(i, js[k])]
    IN Gdf(cols, Flatten([i \in 1..Len(left.rows) |-> RowsOf(i)]), left.crs)

(***************************************************************************)
(* spatial.py                                                              *)
(***************************************************************************)
\* len(zoning_gdf.overlay(zoning_gdf, how='intersection')): one feature per
\* ordered pair of rows (a row with itself included) that share some area.
OverlayCount(zoning) ==
    Cardinality({ij \in (1..Len(zoning.rows)) \X (1..Len(zoning.rows)) :
                    Cells(zoning.rows[ij[1]].geom) \cap Cells(zoning.rows[ij[2]].geom) # {}})

\* SpatialRelationshipValidator.validate
SpatialRelationshipValidator_validate(zoning, parcels) ==
    LET parcels_in_zoning == sjoin_left_within(parcels, zoning)
        unzoned_parcels == CountTrue([i \in 1..Len(parcels_in_zoning.rows) |->
                                 parcels_in_zoning.rows[i].index_right = NoMatch])
        issues == (IF OverlayCount(zoning) > Len(zoning.rows)
                   THEN <<Issue("overlapping_districts", <<>>, 0)>> ELSE <<>>)
               \o (IF unzoned_parcels > 0
                   THEN <<Issue("unzoned_parcels", <<>>, unzoned_parcels)>> ELSE <<>>)
    IN Result(issues = <<>>, issues)

(***************************************************************************)
(* processor.py: _perform_spatial_join                                     *)
(***************************************************************************)
\* The characters of column names in code-point order.
CharOrder ==
    <<"!","#","-","0","1","2","3","4","5","6","7","8","9","@",
      "A","B","C","D","E","F","G","H","I","J","K","L","M",
      "N","O","P","Q","R","S","T","U","V","W","X","Y","Z","_",
      "a","b","c","d","e","f","g","h","i","j","k","l","m",
      "n","o","p","q","r","s","t","u","v","w","x","y","z">>

CharRank(ch) == CHOOSE i \in DOMAIN CharOrder : CharOrder[i] = ch

\* a sorts before b, or equals it.
LexLeq(a, b) ==
    \/ a = b
    \/ \E k \in 1..(Len(b)) :
          /\ k - 1 <= Len(a)
          /\ SubSeq(a, 1, k - 1) = SubSeq(b, 1, k - 1)
          /\ (k > Len(a) \/ CharRank(a[k]) < CharRank(b[k]))

RECURSIVE SortedNames(_)
\* Index.difference returns the names sorted.
SortedNames(S) ==
    IF S = {} THEN <<>>
    ELSE LET m == CHOOSE x \in S : \A y \in S : LexLeq(x, y)
         IN <<m>> \o SortedNames(S \ {m})

ZONING_COLUMN_PREFIXES ==
    << <<"Z","O","N","E","_">>, <<"L","A","N","D","_","U","S","E","_">>,
       <<"l","u","_">>, <<"d","c","_">> >>

HasZoningPrefix(col) ==
    \E k \in DOMAIN ZONING_COLUMN_PREFIXES :
        LET prefix == ZONING_COLUMN_PREFIXES[k]
        IN Len(prefix) <= Len(col) /\ SubSeq(col, 1, Len(prefix)) = prefix

\* joined_gdf[columns_to_keep]
ProjectJoined(joined, columns) ==
    [joined EXCEPT !.cols = columns,
                   !.rows = [i \in 1..Len(joined.rows) |->
                       [geom |-> joined.rows[i].geom,
                        index_right |-> IF index_right \in SeqToSet(columns)
                                        THEN joined.rows[i].index_right ELSE 0,
                        attrs |-> [c \in AttrCols(columns) |-> joined.rows[i].attrs[c]]]]]

\* CalgaryDataProcessor._perform_spatial_join
perform_spatial_join(zoning, parcels) ==
    LET joined == sjoin_left_within(parcels, zoning)
        zoning_columns == SelectSeq(joined.cols, HasZoningPrefix)
        parcel_columns == REQUIRED_PARCEL_COLUMNS
        columns_to_keep ==
            IF zoning_columns = <<>>
            THEN <<geometry>> \o SortedNames(SeqToSet(joined.cols) \ {geometry})
            ELSE <<geometry>> \o zoning_columns
                 \o SelectSeq(parcel_columns, LAMBDA col : col \in SeqToSet(joined.cols))
    IN ProjectJoined(joined, columns_to_keep)

(***************************************************************************)
(* reporting.py                                                            *)
(***************************************************************************)
NoReport == [timestamp |-> -1, number_of_districts |-> 0, number_of_parcels |-> 0,
             output_features |-> 0, parcels_with_zoning |-> 0,
             parcels_without_zoning |-> 0, coverage_percentage |-> <<0, 1>>]

\* DataQualityReporter.generate_report up to the write: the report it builds
\* or the exception it raises.  A percentage is kept as the exact fraction
\* <<numerator, denominator>>.
build_report(zoning, parcels, joined, clock) ==
    IF index_right \notin SeqToSet(joined.cols)
    THEN [raised |-> Raise("AttributeError",
                           "'GeoDataFrame' object has no attribute 'index_right'"),
          report |-> NoReport]
    ELSE IF Len(parcels.rows) = 0
    THEN [raised |-> Raise("ZeroDivisionError", "division by zero"), report |-> NoReport]
    ELSE IF \/ ~(SeqToSet(REQUIRED_ZONING_COLUMNS) \subseteq SeqToSet(zoning.cols))
            \/ ~(SeqToSet(REQUIRED_PARCEL_COLUMNS) \subseteq SeqToSet(parcels.cols))
    THEN [raised |-> Raise("KeyError", "required column"), report |-> NoReport]
    ELSE LET with_zoning == CountTrue([i \in 1..Len(joined.rows) |->
                                         joined.rows[i].index_right # NoMatch])
             without_zoning == CountTrue([i \in 1..Len(joined.rows) |->
                                            joined.rows[i].index_right = NoMatch])
         IN [raised |-> NoError,
             report |-> [timestamp |-> clock,
                         number_of_districts |-> Len(zoning.rows),
                         number_of_parcels |-> Len(parcels.rows),
                         output_features |-> Len(joined.rows),
                         parcels_with_zoning |-> with_zoning,
                         parcels_without_zoning |-> without_zoning,
                         coverage_percentage |-> <<with_zoning * 100, Len(parcels.rows)>>]]

(***************************************************************************)
(* data_manager.py: DataManager.  A parcel collection is the sequence of   *)
(* the chunks it was put together from; a chunk is a run of consecutive    *)
(* records of the remote dataset, given by the index of its first record   *)
(* and the number of its records.                                          *)
(***************************************************************************)
CACHE_EXPIRY_DAYS == 7

DataManager_TARGET_CRS == "EPSG:3400"
SOURCE_CRS == "EPSG:4326"

\* limit = 100000
limit == 100000

Chunk(first, count) == [first |-> first, count |-> count]

\* gpd.read_file(f"{PARCEL_BOUNDARIES_URL}?$limit={lim}&$offset={off}") on a
\* remote dataset of n records: the records off .. off + lim - 1 that exist.
read_file_url(n, lim, off) ==
    Chunk(off, IF off >= n THEN 0 ELSE IF n - off < lim THEN n - off ELSE lim)

\* gpd.GeoDataFrame(pd.concat(all_data, ignore_index=True)); GeoJSON is read
\* in SOURCE_CRS.
concat(chunks) == [chunks |-> chunks, crs |-> SOURCE_CRS]

NoParcels == [chunks |-> <<>>, crs |-> CrsNone]

NoParcelCache == [exists |-> FALSE, age_days |-> 0, readable |-> FALSE, gdf |-> NoParcels]

\* DataManager._load_from_cache: None when the cache is not valid or cannot
\* be read.
load_from_cache(c) ==
    IF ~(c.exists /\ c.age_days < CACHE_EXPIRY_DAYS) THEN [hit |-> FALSE, gdf |-> NoParcels]
    ELSE IF ~c.readable THEN [hit |-> FALSE, gdf |-> NoParcels]
    ELSE [hit |-> TRUE,
          gdf |-> IF c.gdf.crs # DataManager_TARGET_CRS
                  THEN [c.gdf EXCEPT !.crs = DataManager_TARGET_CRS] ELSE c.gdf]

\* DataManager._ensure_crs
ensure_crs(gdf) ==
    IF gdf.crs # DataManager_TARGET_CRS
    THEN [gdf EXCEPT !.crs = DataManager_TARGET_CRS] ELSE gdf

\* DataManager._save_to_cache when gdf.to_file succeeds.
saved_cache(gdf) == [exists |-> TRUE, age_days |-> 0, readable |-> TRUE, gdf |-> gdf]

\* if len(chunk) <= limit: break
LastChunk_Inclusive(chunk) == chunk.count <= limit

\* if len(chunk) < limit: break
LastChunk(chunk) == chunk.count < limit

\* No call of get_parcel_boundaries is under way.
FetchIdle ==
    /\ remote = 0
    /\ dm_cache = NoParcelCache
    /\ dm_pc = "Idle"
    /\ offset = 0
    /\ all_data = <<>>
    /\ requests = <<>>
    /\ dm_ret = Returned(NoParcels)

(***************************************************************************)
(* The datasets on disk the pipeline specification starts from.            *)
(***************************************************************************)
RECURSIVE SeqsUpTo(_, _)
\* The sequences over S of length at most n.
SeqsUpTo(S, n) ==
    IF n = 0 THEN {<<>>}
    ELSE LET shorter == SeqsUpTo(S, n - 1)
         IN shorter \cup {Append(q, x) : q \in {r \in shorter : Len(r) = n - 1}, x \in S}

code_R1    == Str(<<"R","-","1">>)
code_lower == Str(<<"r","1">>)
code_space == Str(<<"R"," ","1">>)
code_empty == Str(<<>>)
text_x     == Str(<<"x">>)

\* A zoning row: its geometry, its lu_code and the value of its other columns.
ZoningRow(cols, g, code, fill) ==
    Row(g, [c \in AttrCols(cols) |-> IF c = lu_code THEN code ELSE fill])

ParcelRow(cols, g, fill) == Row(g, [c \in AttrCols(cols) |-> fill])

RawZoningCols == <<lu_bylaw, lu_code, dc_bylaw, dc_site_no, comments, geometry>>
RawParcelCols == <<roll_numbe, address, land_use_d, property_t, geometry>>

ZoningDatasets ==
    {Gdf(RawZoningCols, rows, crs) :
        rows \in SeqsUpTo({ ZoningRow(RawZoningCols, "sqAB", code_R1, text_x),
                            ZoningRow(RawZoningCols, "sqB", code_lower, text_x),
                            ZoningRow(RawZoningCols, "bowtie", NULL, NULL),
                            ZoningRow(RawZoningCols, "spike", code_empty, text_x),
                            ZoningRow(RawZoningCols, "emptyPoly", code_R1, text_x) },
                          MaxRows),
        crs \in {TARGET_CRS, "EPSG:4326", CrsNone}}
    \cup {Gdf(<<lu_bylaw, lu_code, dc_site_no, geometry>>,
              <<ZoningRow(<<lu_bylaw, lu_code, dc_site_no, geometry>>, "sqAB", code_R1, text_x)>>, TARGET_CRS)}

ParcelDatasets ==
    {Gdf(RawParcelCols, rows, crs) :
        rows \in SeqsUpTo({ ParcelRow(RawParcelCols, "sqA", text_x),
                            ParcelRow(RawParcelCols, "sqC", text_x),
                            ParcelRow(RawParcelCols, "bowtie", NULL),
                            ParcelRow(RawParcelCols, GeomNone, text_x) },
                          MaxParcelRows),
        crs \in {TARGET_CRS, CrsNone}}
    \cup {Gdf(<<roll_numbe, land_use_d, property_t, geometry>>,
              <<ParcelRow(<<roll_numbe, land_use_d, property_t, geometry>>, "sqA", text_x)>>, "EPSG:4326")}

DefaultZoning == Gdf(RawZoningCols, <<ZoningRow(RawZoningCols, "sqAB", code_R1, text_x)>>,
                     TARGET_CRS)
DefaultParcels == Gdf(RawParcelCols, <<ParcelRow(RawParcelCols, "sqA", text_x)>>, TARGET_CRS)

NoOutput == NoGdf

(***************************************************************************)
(* processor.py: process_data, one action per stage.                       *)
(***************************************************************************)
\* process_data with the CRS harmonization moved ahead of the zoning-code validation.
ProcessDataStages_CrsBeforeCodes ==
    <<"InputValidated", "ZoningRead", "Read", "GeometryFixed", "ColumnsValidated",
      "CRSHarmonized", "CodesValidated", "SpatialChecked", "Joined", "Reported",
      "Persisted">>

\* The statements of process_data in program order, named by the state each
\* one reaches when it completes.
ProcessDataStages ==
    <<"InputValidated", "ZoningRead", "Read", "GeometryFixed", "ColumnsValidated",
      "CodesValidated", "CRSHarmonized", "SpatialChecked", "Joined", "Reported",
      "Persisted">>

\* The stage whose code runs next when the call stands at s.
StageAfter(s) ==
    IF s = "Start" THEN ProcessDataStages[1]
    ELSE IF \E i \in 1..(Len(ProcessDataStages) - 1) : ProcessDataStages[i] = s
    THEN ProcessDataStages[(CHOOSE i \in 1..(Len(ProcessDataStages) - 1) :
                               ProcessDataStages[i] = s) + 1]
    ELSE "none"

Running == pc \notin {"Idle", "Aborted", "Done"}

\* An exception leaves process_data: nothing after the raising statement runs.
Abort(stage, err) ==
    /\ pc' = "Aborted"
    /\ error' = err
    /\ trace' = Append(trace, stage)

Complete(stage) ==
    /\ pc' = stage
    /\ trace' = Append(trace, stage)
    /\ error' = error

PipelineInit ==
    /\ files \in SUBSET AllFiles
    /\ \E z \in ZoningDatasets, p \in ParcelDatasets :
          /\ files # AllFiles => z = DefaultZoning /\ p = DefaultParcels
          /\ raw = [ds \in Datasets |->
                       [gdf |-> IF ds = "zoning" THEN z ELSE p, mtime |-> 0]]
    /\ cache = [ds \in Datasets |-> NoCache]
    /\ now = 1
    /\ pc = "Start"
    /\ trace = <<>>
    /\ zoning_gdf = NoGdf
    /\ parcels_gdf = NoGdf
    /\ joined_gdf = NoGdf
    /\ error = NoError
    /\ log = <<>>
    /\ reports = {}
    /\ output = NoOutput

UnitIdle ==
    /\ u_gdf = NoGdf
    /\ u_calls = <<>>
    /\ u_ret = <<>>

Init == PipelineInit /\ UnitIdle /\ FetchIdle

\* processor.py:54  zoning_shp, parcels_shp = self.file_manager.validate_input_files()
ValidateInputFiles ==
    /\ Running /\ StageAfter(pc) = "InputValidated"
    /\ LET r == validate_input_files(files)
       IN IF r.raised # NoError THEN Abort("InputValidated", r.raised)
          ELSE Complete("InputValidated")
    /\ UNCHANGED <<files, raw, cache, now, zoning_gdf, parcels_gdf, joined_gdf, log,
                   reports, output, unitVars, fetchVars>>

\* processor.py:59  zoning_gdf = self._read_geodata(zoning_shp, usecols=...)
ReadZoning ==
    /\ Running /\ StageAfter(pc) = "ZoningRead"
    /\ LET r == read_geodata(raw["zoning"], cache["zoning"], REQUIRED_ZONING_COLUMNS, now)
       IN /\ cache' = [cache EXCEPT !["zoning"] = r.cache]
          /\ log' = log \o r.log
          /\ IF r.ret.raised # NoError
             THEN Abort("ZoningRead", r.ret.raised) /\ UNCHANGED zoning_gdf
             ELSE Complete("ZoningRead") /\ zoning_gdf' = r.ret.gdf
    /\ UNCHANGED <<files, raw, now, parcels_gdf, joined_gdf, reports, output, unitVars, fetchVars>>

\* processor.py:60  parcels_gdf = self._read_geodata(parcels_shp, usecols=...)
ReadParcels ==
    /\ Running /\ StageAfter(pc) = "Read"
    /\ LET r == read_geodata(raw["parcels"], cache["parcels"], REQUIRED_PARCEL_COLUMNS, now)
       IN /\ cache' = [cache EXCEPT !["parcels"] = r.cache]
          /\ log' = log \o r.log
          /\ IF r.ret.raised # NoError
             THEN Abort("Read", r.ret.raised) /\ UNCHANGED parcels_gdf
             ELSE Complete("Read") /\ parcels_gdf' = r.ret.gdf
    /\ UNCHANGED <<files, raw, now, zoning_gdf, joined_gdf, reports, output, unitVars, fetchVars>>

GeometryWarning(name, gdf) ==
    IF InvalidMask(gdf) # {}
    THEN <<Warning(name, Cardinality(InvalidMask(gdf)))>> ELSE <<>>

\* processor.py:65-66  the two calls of _validate_and_fix_geometries
FixGeometries ==
    /\ Running /\ StageAfter(pc) = "GeometryFixed"
    /\ LET z == validate_and_fix_geometries(zoning_gdf)
           p == validate_and_fix_geometries(parcels_gdf)
           zlog == GeometryWarning("Zoning geometry issues found", zoning_gdf)
           plog == GeometryWarning("Parcels geometry issues found", parcels_gdf)
       IN IF z.raised # NoError
          THEN /\ Abort("GeometryFixed", z.raised)
               /\ log' = log \o zlog
               /\ UNCHANGED <<zoning_gdf, parcels_gdf>>
          ELSE IF p.raised # NoError
          THEN /\ Abort("GeometryFixed", p.raised)
               /\ log' = log \o zlog \o plog
               /\ zoning_gdf' = z.gdf
               /\ UNCHANGED parcels_gdf
          ELSE /\ Complete("GeometryFixed")
               /\ log' = log \o zlog \o plog
               /\ zoning_gdf' = z.gdf
               /\ parcels_gdf' = p.gdf
    /\ UNCHANGED <<files, raw, cache, now, joined_gdf, reports, output, unitVars, fetchVars>>

IssueLog(level, issues) ==
    [i \in 1..Len(issues) |-> [level |-> level, msg |-> issues[i].kind, count |-> issues[i].count]]

\* _validate_columns with the parcel check skipped.
validate_columns_ZoningOnly(zoning, parcels) ==
    LET z == ColumnValidator_validate(zoning, REQUIRED_ZONING_COLUMNS)
    IN IF ~z.ok
       THEN [raised |-> Raise("ValueError", "Missing required zoning columns"),
             log |-> <<Error("Zoning column issues found:", 0)>> \o IssueLog("error", z.issues)]
       ELSE [raised |-> NoError, log |-> <<>>]

\* CalgaryDataProcessor._validate_columns
validate_columns(zoning, parcels) ==
    LET z == ColumnValidator_validate(zoning, REQUIRED_ZONING_COLUMNS)
        p == ColumnValidator_validate(parcels, REQUIRED_PARCEL_COLUMNS)
    IN IF ~z.ok
       THEN [raised |-> Raise("ValueError", "Missing required zoning columns"),
             log |-> <<Error("Zoning column issues found:", 0)>> \o IssueLog("error", z.issues)]
       ELSE IF ~p.ok
       THEN [raised |-> Raise("ValueError", "Missing required parcel columns"),
             log |-> <<Error("Parcel column issues found:", 0)>> \o IssueLog("error", p.issues)]
       ELSE [raised |-> NoError, log |-> <<>>]

\* gdf.fillna('x', inplace=True): every null attribute value of the
\* collection replaced.
FillNa(gdf) ==
    [gdf EXCEPT !.rows = [i \in 1..Len(gdf.rows) |->
        [gdf.rows[i] EXCEPT !.attrs = [c \in DOMAIN gdf.rows[i].attrs |->
            IF gdf.rows[i].attrs[c] = NULL THEN text_x ELSE gdf.rows[i].attrs[c]]]]]

\* The column stage with a validator that fills the null values of the
\* collection it is given before it looks at them.
ValidateColumns_FillNa ==
    /\ Running /\ StageAfter(pc) = "ColumnsValidated"
    /\ LET r == validate_columns(FillNa(zoning_gdf), parcels_gdf)
       IN /\ log' = log \o r.log
          /\ IF r.raised # NoError THEN Abort("ColumnsValidated", r.raised)
             ELSE Complete("ColumnsValidated")
    /\ zoning_gdf' = FillNa(zoning_gdf)
    /\ UNCHANGED <<files, raw, cache, now, parcels_gdf, joined_gdf,
                   reports, output, unitVars, fetchVars>>

\* processor.py:71  self._validate_columns(zoning_gdf, parcels_gdf)
ValidateColumns ==
    /\ Running /\ StageAfter(pc) = "ColumnsValidated"
    /\ LET r == validate_columns(zoning_gdf, parcels_gdf)
       IN /\ log' = log \o r.log
          /\ IF r.raised # NoError THEN Abort("ColumnsValidated", r.raised)
             ELSE Complete("ColumnsValidated")
    /\ UNCHANGED <<files, raw, cache, now, zoning_gdf, parcels_gdf, joined_gdf,
                   reports, output, unitVars, fetchVars>>

\* _validate_zoning_codes raising on a failed validation, as _validate_columns does.
validate_zoning_codes_Raising(zoning) ==
    LET r == ZoningCodeValidator_validate(zoning)
    IN IF ~r.ok
       THEN [raised |-> Raise("ValueError", "Invalid zoning codes"),
             log |-> <<Warning("Zoning code issues found:", 0)>> \o IssueLog("warning", r.issues)]
       ELSE [raised |-> NoError, log |-> <<>>]

\* CalgaryDataProcessor._validate_zoning_codes
validate_zoning_codes(zoning) ==
    LET r == ZoningCodeValidator_validate(zoning)
    IN [raised |-> NoError,
        log |-> IF ~r.ok
                THEN <<Warning("Zoning code issues found:", 0)>> \o IssueLog("warning", r.issues)
                ELSE <<>>]

\* processor.py:76  self._validate_zoning_codes(zoning_gdf)
ValidateZoningCodes ==
    /\ Running /\ StageAfter(pc) = "CodesValidated"
    /\ LET r == validate_zoning_codes(zoning_gdf)
       IN /\ log' = log \o r.log
          /\ IF r.raised # NoError THEN Abort("CodesValidated", r.raised)
             ELSE Complete("CodesValidated")
    /\ UNCHANGED <<files, raw, cache, now, zoning_gdf, parcels_gdf, joined_gdf,
                   reports, output, unitVars, fetchVars>>

\* processor.py:81  zoning_gdf, parcels_gdf = self._ensure_consistent_crs(...)
EnsureConsistentCrs ==
    /\ Running /\ StageAfter(pc) = "CRSHarmonized"
    /\ LET r == ensure_consistent_crs(zoning_gdf, parcels_gdf)
       IN /\ log' = log \o r.log
          /\ IF r.raised # NoError
             THEN Abort("CRSHarmonized", r.raised) /\ UNCHANGED <<zoning_gdf, parcels_gdf>>
             ELSE /\ Complete("CRSHarmonized")
                  /\ zoning_gdf' = r.zoning
                  /\ parcels_gdf' = r.parcels
    /\ UNCHANGED <<files, raw, cache, now, joined_gdf, reports, output, unitVars, fetchVars>>

\* CalgaryDataProcessor._validate_spatial_relationships
validate_spatial_relationships(zoning, parcels) ==
    LET r == SpatialRelationshipValidator_validate(zoning, parcels)
    IN [raised |-> NoError,
        log |-> IF ~r.ok
                THEN <<Warning("Spatial relationship issues found:", 0)>>
                     \o IssueLog("warning", r.issues)
                ELSE <<>>]

\* processor.py:86  self._validate_spatial_relationships(zoning_gdf, parcels_gdf)
ValidateSpatialRelationships ==
    /\ Running /\ StageAfter(pc) = "SpatialChecked"
    /\ LET r == validate_spatial_relationships(zoning_gdf, parcels_gdf)
       IN /\ log' = log \o r.log
          /\ IF r.raised # NoError THEN Abort("SpatialChecked", r.raised)
             ELSE Complete("SpatialChecked")
    /\ UNCHANGED <<files, raw, cache, now, zoning_gdf, parcels_gdf, joined_gdf,
                   reports, output, unitVars, fetchVars>>

\* processor.py:91  joined_gdf = self._perform_spatial_join(zoning_gdf, parcels_gdf)
PerformSpatialJoin ==
    /\ Running /\ StageAfter(pc) = "Joined"
    /\ joined_gdf' = perform_spatial_join(zoning_gdf, parcels_gdf)
    /\ Complete("Joined")
    /\ UNCHANGED <<files, raw, cache, now, zoning_gdf, parcels_gdf, log,
                   reports, output, unitVars, fetchVars>>

\* The report files after one is written at path: open(report_path, 'w')
\* replaces a file of the same name.
WriteReport(path, report) ==
    {f \in reports : f.path # path} \cup {[path |-> path, report |-> report]}

\* processor.py:96-105  generate_report, then joined_gdf.to_file, then return.
\* The report file is named by the second it is written in.
ReportAndPersist ==
    /\ Running /\ StageAfter(pc) = "Reported"
    /\ LET r == build_report(zoning_gdf, parcels_gdf, joined_gdf, now)
       IN IF r.raised # NoError
          THEN Abort("Reported", r.raised) /\ UNCHANGED <<reports, output>>
          ELSE /\ reports' = WriteReport(now, r.report)
               /\ output' = joined_gdf
               /\ pc' = IF StageAfter("Reported") = "Persisted" THEN "Done" ELSE "Persisted"
               /\ trace' = trace \o <<"Reported", "Persisted">>
               /\ error' = error
    /\ UNCHANGED <<files, raw, cache, now, zoning_gdf, parcels_gdf, joined_gdf, log, unitVars, fetchVars>>

\* A further call of process_data on the same data directory.
StartRun ==
    /\ pc \in {"Aborted", "Done"}
    /\ pc' = "Start"
    /\ trace' = <<>>
    /\ zoning_gdf' = NoGdf
    /\ parcels_gdf' = NoGdf
    /\ joined_gdf' = NoGdf
    /\ error' = NoError
    /\ log' = <<>>
    /\ UNCHANGED <<files, raw, cache, now, reports, output, unitVars, fetchVars>>

Next ==
    \/ ValidateInputFiles
    \/ ReadZoning
    \/ ReadParcels
    \/ FixGeometries
    \/ ValidateColumns
    \/ ValidateZoningCodes
    \/ EnsureConsistentCrs
    \/ ValidateSpatialRelationships
    \/ PerformSpatialJoin
    \/ ReportAndPersist
    \/ StartRun

Spec == Init /\ [][Next]_vars

(***************************************************************************)
(* SpecUnit: the validators and the geometry-fix routines called directly. *)
(***************************************************************************)
Digit(i) == CHOOSE d \in {"0","1","2","3","4","5","6","7","8","9"} : CharRank(d) = i + 4

\* Collections that differ in their geometries; roll_numbe numbers the rows.
GeometryInputs ==
    {Gdf(<<roll_numbe, geometry>>,
         [i \in 1..Len(gs) |-> Row(gs[i], [c \in {roll_numbe} |-> Str(<<Digit(i)>>)])],
         TARGET_CRS) :
        gs \in SeqsUpTo({"sqA", "bowtie", "spike", "emptyPoly", GeomNone}, MaxUnitRows)}

UnitInputs ==
    GeometryInputs
    \* Collections that differ in their zoning codes, or have no lu_code column.
    \cup {Gdf(<<lu_code, geometry>>,
              [i \in 1..Len(cs) |-> Row("sqA", [c \in {lu_code} |-> cs[i]])], TARGET_CRS) :
             cs \in SeqsUpTo({NULL, code_empty, code_R1, code_lower, code_space}, MaxUnitRows)}
    \cup {Gdf(<<lu_bylaw, geometry>>,
              [i \in 1..Len(cs) |-> Row("sqA", [c \in {lu_bylaw} |-> cs[i]])], TARGET_CRS) :
             cs \in SeqsUpTo({NULL, code_lower}, 1)}
    \* Collections that differ in which of lu_bylaw and lu_code they hold and in
    \* which of their values are null; dc_bylaw and dc_site_no are always filled.
    \cup UNION {
        {Gdf(SelectSeq(REQUIRED_ZONING_COLUMNS, LAMBDA c : c \in S \cup {dc_bylaw, dc_site_no})
                \o <<geometry>>,
             rows, TARGET_CRS) :
            rows \in SeqsUpTo({Row("sqA", [c \in S \cup {dc_bylaw, dc_site_no} |->
                                              IF c \in N THEN NULL ELSE text_x]) :
                                  N \in SUBSET S},
                              MaxUnitRows)} :
        S \in SUBSET {lu_bylaw, lu_code}}

PipelineIdle ==
    /\ files = {}
    /\ raw = [ds \in Datasets |-> [gdf |-> NoGdf, mtime |-> 0]]
    /\ cache = [ds \in Datasets |-> NoCache]
    /\ now = 1
    /\ pc = "Idle"
    /\ trace = <<>>
    /\ zoning_gdf = NoGdf
    /\ parcels_gdf = NoGdf
    /\ joined_gdf = NoGdf
    /\ error = NoError
    /\ log = <<>>
    /\ reports = {}
    /\ output = NoOutput

UnitInit ==
    /\ PipelineIdle
    /\ u_gdf \in UnitInputs
    /\ u_calls = <<>>
    /\ u_ret = <<>>
    /\ FetchIdle

Call(op, required) == [op |-> op, arg |-> u_gdf, required |-> required]

\* is_valid, issues = ColumnValidator().validate(gdf, required_columns)
CallColumnValidate ==
    /\ Len(u_calls) < MaxCalls
    /\ \E required \in {REQUIRED_ZONING_COLUMNS, REQUIRED_PARCEL_COLUMNS} :
          /\ u_calls' = Append(u_calls, Call("ColumnValidator.validate", required))
          /\ u_ret' = Append(u_ret, ColumnValidator_validate(u_gdf, required))
    /\ UNCHANGED <<u_gdf, pipelineVars, fetchVars>>

\* is_valid, issues = ZoningCodeValidator().validate(gdf)
CallZoningCodeValidate ==
    /\ Len(u_calls) < MaxCalls
    /\ u_calls' = Append(u_calls, Call("ZoningCodeValidator.validate", <<>>))
    /\ u_ret' = Append(u_ret, ZoningCodeValidator_validate(u_gdf))
    /\ UNCHANGED <<u_gdf, pipelineVars, fetchVars>>

\* gdf = GeometryValidator().fix_issues(gdf)
CallFixIssues ==
    /\ Len(u_calls) < MaxCalls
    /\ LET r == GeometryValidator_fix_issues(u_gdf)
       IN /\ u_calls' = Append(u_calls, Call("GeometryValidator.fix_issues", <<>>))
          /\ u_ret' = Append(u_ret, r)
          /\ u_gdf' = IF r.raised = NoError THEN r.gdf ELSE u_gdf
    /\ UNCHANGED <<pipelineVars, fetchVars>>

\* gdf = processor._validate_and_fix_geometries(gdf, name)
CallValidateAndFixGeometries ==
    /\ Len(u_calls) < MaxCalls
    /\ LET r == validate_and_fix_geometries(u_gdf)
       IN /\ u_calls' = Append(u_calls, Call("_validate_and_fix_geometries", <<>>))
          /\ u_ret' = Append(u_ret, r)
          /\ u_gdf' = IF r.raised = NoError THEN r.gdf ELSE u_gdf
    /\ UNCHANGED <<pipelineVars, fetchVars>>

UnitNext ==
    \/ CallColumnValidate
    \/ CallZoningCodeValidate
    \/ CallFixIssues
    \/ CallValidateAndFixGeometries

SpecUnit == UnitInit /\ [][UnitNext]_vars

(***************************************************************************)
(* SpecPair: the routines that take the zoning and the parcel collection,  *)
(* called directly on a pair of collections.                               *)
(***************************************************************************)
\* A collection with the given columns, geometries and CRS; the first
\* attribute column numbers the rows, the others hold one fixed value.
PairFrame(cols, gs, crs) ==
    Gdf(cols,
        [i \in 1..Len(gs) |->
            Row(gs[i], [c \in AttrCols(cols) |->
                           IF c = cols[1] THEN Str(<<Digit(i)>>) ELSE text_x])],
        crs)

PairZoningCols == <<lu_code, comments, geometry>>
PairParcelCols == <<roll_numbe, address, geometry>>

PairInputs ==
    \* Pairs that differ in their geometries.
    {[zoning |-> PairFrame(PairZoningCols, zs, TARGET_CRS),
      parcels |-> PairFrame(PairParcelCols, ps, TARGET_CRS)] :
        zs \in SeqsUpTo({"sqAB", "sqA", "emptyPoly"}, MaxPairZoning),
        ps \in SeqsUpTo({"sqA", "sqAB", GeomNone}, MaxPairParcels)}
    \* Pairs that differ in their columns (a parcel column lu_note, a parcel
    \* column owner).
    \cup {[zoning |-> PairFrame(zc, <<"sqAB">>, TARGET_CRS),
           parcels |-> PairFrame(pc_, <<"sqA">>, TARGET_CRS)] :
             zc \in {PairZoningCols, <<comments, geometry>>, <<lu_code, dc_bylaw, geometry>>},
             pc_ \in {PairParcelCols,
                      <<roll_numbe, <<"l","u","_","n","o","t","e">>, geometry>>,
                      <<comments, geometry>>,
                      <<<<"o","w","n","e","r">>, property_t, geometry>>}}
    \* Pairs that differ in their CRS.
    \cup {[zoning |-> PairFrame(PairZoningCols, <<"sqAB">>, zcrs),
           parcels |-> PairFrame(PairParcelCols, <<"sqA">>, pcrs)] :
             zcrs \in {TARGET_CRS, "EPSG:4326", CrsNone},
             pcrs \in {TARGET_CRS, "EPSG:3776", CrsNone}}

PairInit ==
    /\ files = {}
    /\ raw = [ds \in Datasets |-> [gdf |-> NoGdf, mtime |-> 0]]
    /\ cache = [ds \in Datasets |-> NoCache]
    /\ now = 1
    /\ pc = "Idle"
    /\ trace = <<>>
    /\ \E pair \in PairInputs : zoning_gdf = pair.zoning /\ parcels_gdf = pair.parcels
    /\ joined_gdf = NoGdf
    /\ error = NoError
    /\ log = <<>>
    /\ reports = {}
    /\ output = NoOutput
    /\ UnitIdle
    /\ FetchIdle

PairCall(op) == [op |-> op, arg |-> [zoning |-> zoning_gdf, parcels |-> parcels_gdf]]

\* zoning_gdf, parcels_gdf = processor._ensure_consistent_crs(zoning_gdf, parcels_gdf)
CallEnsureConsistentCrs ==
    /\ Len(u_calls) < MaxCalls
    /\ LET r == ensure_consistent_crs(zoning_gdf, parcels_gdf)
       IN /\ u_calls' = Append(u_calls, PairCall("_ensure_consistent_crs"))
          /\ u_ret' = Append(u_ret, r)
          /\ zoning_gdf' = IF r.raised = NoError THEN r.zoning ELSE zoning_gdf
          /\ parcels_gdf' = IF r.raised = NoError THEN r.parcels ELSE parcels_gdf
    /\ UNCHANGED <<files, raw, cache, now, pc, trace, joined_gdf, error, log, reports,
                   output, u_gdf, fetchVars>>

\* is_valid, issues = SpatialRelationshipValidator().validate(zoning_gdf, parcels_gdf)
CallSpatialValidate ==
    /\ Len(u_calls) < MaxCalls
    /\ u_calls' = Append(u_calls, PairCall("SpatialRelationshipValidator.validate"))
    /\ u_ret' = Append(u_ret, SpatialRelationshipValidator_validate(zoning_gdf, parcels_gdf))
    /\ UNCHANGED <<pipelineVars, u_gdf, fetchVars>>

\* joined_gdf = processor._perform_spatial_join(zoning_gdf, parcels_gdf)
CallPerformSpatialJoin ==
    /\ Len(u_calls) < MaxCalls
    /\ LET joined == perform_spatial_join(zoning_gdf, parcels_gdf)
       IN /\ u_calls' = Append(u_calls, PairCall("_perform_spatial_join"))
          /\ u_ret' = Append(u_ret, Returned(joined))
          /\ joined_gdf' = joined
    /\ UNCHANGED <<files, raw, cache, now, pc, trace, zoning_gdf, parcels_gdf, error, log,
                   reports, output, u_gdf, fetchVars>>

PairNext ==
    \/ CallEnsureConsistentCrs
    \/ CallSpatialValidate
    \/ CallPerformSpatialJoin

SpecPair == PairInit /\ [][PairNext]_vars

(***************************************************************************)
(* SpecLarge: the geometry-fix routines called on collections of about     *)
(* PARALLEL_THRESHOLD features.                                            *)
(***************************************************************************)
LargeInit ==
    /\ PipelineIdle
    /\ u_gdf \in (
        \* Collections of PARALLEL_THRESHOLD features, of one more, and of
        \* PARALLEL_THRESHOLD more than the features listed.
            {LargeGdf(g, more) :
                g \in GeometryInputs,
                more \in {PARALLEL_THRESHOLD - MaxUnitRows, PARALLEL_THRESHOLD - MaxUnitRows + 1,
                          PARALLEL_THRESHOLD}})
    /\ u_calls = <<>>
    /\ u_ret = <<>>
    /\ FetchIdle

LargeNext ==
    \/ CallFixIssues
    \/ CallValidateAndFixGeometries

SpecLarge == LargeInit /\ [][LargeNext]_vars

(***************************************************************************)
(* SpecRuns: calls of process_data on one data directory, while time       *)
(* passes and the raw datasets are replaced on disk.  raw[ds].mtime is the *)
(* modification time of the .shp file, the one _read_geodata looks at.     *)
(***************************************************************************)
RunsInit ==
    /\ files = AllFiles
    /\ raw = [ds \in Datasets |->
                 [gdf |-> IF ds = "zoning" THEN DefaultZoning ELSE DefaultParcels,
                  mtime |-> 0]]
    /\ cache = [ds \in Datasets |-> NoCache]
    /\ now = 1
    /\ pc = "Start"
    /\ trace = <<>>
    /\ zoning_gdf = NoGdf
    /\ parcels_gdf = NoGdf
    /\ joined_gdf = NoGdf
    /\ error = NoError
    /\ log = <<>>
    /\ reports = {}
    /\ output = NoOutput
    /\ UnitIdle
    /\ FetchIdle

\* A second passes.
Tick ==
    /\ now < MaxClock
    /\ now' = now + 1
    /\ UNCHANGED <<files, raw, cache, pc, trace, zoning_gdf, parcels_gdf, joined_gdf,
                   error, log, reports, output, unitVars, fetchVars>>

\* LandUseDistricts.shp is replaced: its modification time becomes the
\* current time.
ModifyShp ==
    /\ \E z \in (
        \* The zoning dataset with other geometries (.shp).
            {DefaultZoning,
             Gdf(RawZoningCols, <<ZoningRow(RawZoningCols, "sqA", code_R1, text_x)>>, TARGET_CRS)}) \ {raw["zoning"].gdf} :
          raw' = [raw EXCEPT !["zoning"] = [gdf |-> z, mtime |-> now]]
    /\ UNCHANGED <<files, cache, now, pc, trace, zoning_gdf, parcels_gdf, joined_gdf,
                   error, log, reports, output, unitVars, fetchVars>>

\* LandUseDistricts.dbf or LandUseDistricts.prj is replaced: the dataset
\* reads differently, the modification time of the .shp file stays.
ModifyCompanion ==
    /\ \E z \in (
        \* The zoning dataset with other attribute values (.dbf) or another CRS (.prj).
            {DefaultZoning,
             Gdf(RawZoningCols, <<ZoningRow(RawZoningCols, "sqAB", code_lower, text_x)>>, TARGET_CRS),
             [DefaultZoning EXCEPT !.crs = "EPSG:4326"]}) \ {raw["zoning"].gdf} :
          /\ [k \in 1..Len(z.rows) |-> z.rows[k].geom]
                = [k \in 1..Len(raw["zoning"].gdf.rows) |-> raw["zoning"].gdf.rows[k].geom]
          /\ raw' = [raw EXCEPT !["zoning"].gdf = z]
    /\ UNCHANGED <<files, cache, now, pc, trace, zoning_gdf, parcels_gdf, joined_gdf,
                   error, log, reports, output, unitVars, fetchVars>>

RunsNext ==
    \/ Next
    \/ Tick
    \/ ModifyShp
    \/ ModifyCompanion

SpecRuns == RunsInit /\ [][RunsNext]_vars

(***************************************************************************)
(* SpecReport: DataQualityReporter.generate_report called directly, on a   *)
(* zoning collection, a parcel collection and a join of the two, while     *)
(* time passes.                                                            *)
(***************************************************************************)
\* The joined collection is the result of gpd.sjoin, or what
\* _perform_spatial_join makes of it.
ReportInit ==
    /\ files = {}
    /\ raw = [ds \in Datasets |-> [gdf |-> NoGdf, mtime |-> 0]]
    /\ cache = [ds \in Datasets |-> NoCache]
    /\ now = 1
    /\ pc = "Idle"
    /\ trace = <<>>
    /\ zoning_gdf \in {z \in ZoningDatasets : z.crs = TARGET_CRS}
    /\ parcels_gdf \in {p \in ParcelDatasets : p.crs = TARGET_CRS}
    /\ joined_gdf \in {sjoin_left_within(parcels_gdf, zoning_gdf),
                       perform_spatial_join(zoning_gdf, parcels_gdf)}
    /\ error = NoError
    /\ log = <<>>
    /\ reports = {}
    /\ output = NoOutput
    /\ UnitIdle
    /\ FetchIdle

\* report = reporter.generate_report(zoning_gdf, parcels_gdf, joined_gdf)
\* The timestamp in the report (isoformat) has the microseconds, which tell
\* the calls of one second apart; the file name (strftime) has the second.
CallGenerateReport ==
    /\ Len(u_calls) < MaxCalls
    /\ LET r == build_report(zoning_gdf, parcels_gdf, joined_gdf, <<now, Len(u_calls)>>)
       IN /\ u_calls' = Append(u_calls, [op |-> "generate_report", path |-> now])
          /\ u_ret' = Append(u_ret, r)
          /\ reports' = IF r.raised = NoError THEN WriteReport(now, r.report) ELSE reports
    /\ UNCHANGED <<files, raw, cache, now, pc, trace, zoning_gdf, parcels_gdf, joined_gdf,
                   error, log, output, u_gdf, fetchVars>>

ReportNext ==
    \/ CallGenerateReport
    \/ Tick

SpecReport == ReportInit /\ [][ReportNext]_vars

(***************************************************************************)
(* SpecFetch: one call of DataManager.get_parcel_boundaries, a statement   *)
(* or a loop iteration per step.  The call runs in one thread and every    *)
(* request is answered or fails, so a step that can be taken is taken.     *)
(***************************************************************************)
FetchInit ==
    /\ PipelineIdle
    /\ UnitIdle
    /\ remote \in {k * limit + r : k \in 0..MaxChunks, r \in {0, 1, limit - 1}}
    /\ dm_cache \in (
            {NoParcelCache}
            \cup {[exists |-> TRUE, age_days |-> a, readable |-> rd,
                   gdf |-> [chunks |-> <<Chunk(0, 1)>>, crs |-> crs]] :
                     a \in {0, CACHE_EXPIRY_DAYS - 1, CACHE_EXPIRY_DAYS},
                     rd \in BOOLEAN,
                     crs \in {DataManager_TARGET_CRS, SOURCE_CRS}})
    /\ dm_pc = "Called"
    /\ offset = 0
    /\ all_data = <<>>
    /\ requests = <<>>
    /\ dm_ret = Returned(NoParcels)

\* data_manager.py:144-152  the cache is returned when it loads; otherwise
\* the fetch starts at offset 0 with nothing collected.
LoadFromCache ==
    /\ dm_pc = "Called"
    /\ LET cached_data == load_from_cache(dm_cache)
       IN IF cached_data.hit
          THEN /\ dm_ret' = Returned(cached_data.gdf)
               /\ dm_pc' = "Returned"
          ELSE /\ dm_ret' = dm_ret
               /\ dm_pc' = "Fetching"
    /\ offset' = 0
    /\ all_data' = <<>>
    /\ UNCHANGED <<remote, dm_cache, requests, pipelineVars, unitVars>>

\* data_manager.py:154-166  one iteration of the while loop.
FetchChunk ==
    /\ dm_pc = "Fetching"
    /\ requests' = Append(requests, offset)
    /\ LET chunk == read_file_url(remote, limit, offset)
       IN IF chunk.count = 0
          THEN /\ dm_pc' = "Fetched"
               /\ UNCHANGED <<all_data, offset>>
          ELSE /\ all_data' = Append(all_data, chunk)
               /\ offset' = offset + limit
               /\ dm_pc' = IF LastChunk(chunk) THEN "Fetched" ELSE "Fetching"
    /\ UNCHANGED <<remote, dm_cache, dm_ret, pipelineVars, unitVars>>

\* data_manager.py:158, 179-181  gpd.read_file raises (the request fails):
\* the error is logged and raised again.
FetchFails ==
    /\ dm_pc = "Fetching"
    /\ requests' = Append(requests, offset)
    /\ dm_ret' = Raised(Raise("DriverError", "request failed"))
    /\ dm_pc' = "Raised"
    /\ UNCHANGED <<remote, dm_cache, offset, all_data, pipelineVars, unitVars>>

\* data_manager.py:168-181  after the loop: nothing fetched raises; otherwise
\* the chunks are combined, reprojected, cached (a failure to write the
\* cache is logged and ignored) and returned.
Combine ==
    /\ dm_pc = "Fetched"
    /\ IF all_data = <<>>
       THEN /\ dm_ret' = Raised(Raise("ValueError", "No parcel data fetched from API"))
            /\ dm_pc' = "Raised"
            /\ UNCHANGED dm_cache
       ELSE LET gdf == ensure_crs(concat(all_data))
            IN /\ dm_cache' \in {saved_cache(gdf), dm_cache}
               /\ dm_ret' = Returned(gdf)
               /\ dm_pc' = "Returned"
    /\ UNCHANGED <<remote, offset, all_data, requests, pipelineVars, unitVars>>

FetchNext ==
    \/ LoadFromCache
    \/ FetchChunk
    \/ FetchFails
    \/ Combine

SpecFetch == FetchInit /\ [][FetchNext]_vars /\ WF_vars(FetchNext)

(***************************************************************************)
(* Properties.                                                             *)
(***************************************************************************)
Last(q) == q[Len(q)]

IsPrefix(q, full) == Len(q) <= Len(full) /\ q = SubSeq(full, 1, Len(q))

Logged(msg) == \E i \in 1..Len(log) : log[i].msg = msg

\* The order of the stages as the specification gives it, the read stage
\* taking the zoning file and then the parcel file.
StatedStageOrder ==
    <<"InputValidated", "ZoningRead", "Read", "GeometryFixed", "ColumnsValidated",
      "CodesValidated", "CRSHarmonized", "SpatialChecked", "Joined", "Reported",
      "Persisted">>

\* C1: in every call of process_data the stages entered so far are an
\* initial part of the stated order (input validation, read zoning, read
\* parcels, geometry fix, column validation, zoning-code validation, CRS
\* harmonization, spatial validation, join, report, persistence): no stage
\* runs twice, none is re-entered, and while the call is running every stage
\* entered has completed, the last of them being the state the call is in.
C1_StagesRunInOrder ==
    /\ pc # "Idle" => IsPrefix(trace, StatedStageOrder)
    /\ (Running /\ trace # <<>>) => pc = Last(trace)
    /\ (Running /\ trace = <<>>) => pc = "Start"

\* C1 witness: a call that went through every stage up to report generation.
C1_Witness == Len(trace) = 10 /\ Last(trace) = "Reported" /\ trace[6] = "CodesValidated"

\* A dataset on disk that passes every fatal check and has no data-quality
\* issue: all required columns, a defined CRS, at least one row, every
\* geometry present, valid and not empty, every required value filled.
CleanDataset(gdf, required) ==
    /\ SeqToSet(required) \subseteq SeqToSet(gdf.cols)
    /\ gdf.crs # CrsNone
    /\ gdf.rows # <<>>
    /\ \A i \in 1..Len(gdf.rows) :
          /\ gdf.rows[i].geom # GeomNone
          /\ is_valid(gdf.rows[i].geom) /\ ~is_empty(gdf.rows[i].geom)
          /\ \A c \in SeqToSet(required) : ~gdf.rows[i].attrs[c].null

CleanInputs ==
    /\ files = AllFiles
    /\ CleanDataset(raw["zoning"].gdf, REQUIRED_ZONING_COLUMNS)
    /\ CleanDataset(raw["parcels"].gdf, REQUIRED_PARCEL_COLUMNS)

\* C2: a call of process_data whose inputs pass every fatal check (all eight
\* files present, every required column present and filled, both CRS
\* defined) is not ended by an exception: it reaches Done with the report
\* and the joined output written.  Stated here for inputs that, beyond
\* passing the fatal checks, have no data-quality issue at all.
C2_PassingInputsReachDone ==
    CleanInputs =>
        /\ pc # "Aborted"
        /\ pc = "Done" => output = joined_gdf /\ reports # {}

FatalStages == {"InputValidated", "ZoningRead", "Read", "ColumnsValidated", "CRSHarmonized"}

\* C3: when input-file validation, a read, column validation or CRS
\* harmonization fails, the call ends there with the exception: the failing
\* stage is the last one entered, no join has been performed and no report
\* and no output file exist; a call that went past one of these stages had
\* the stage's check pass (all files present, the required columns in the
\* file read, both validators ok, both CRS defined); and the only step an
\* aborted call is followed by is the start of another call.
C3_FatalStageAborts ==
    /\ [](/\ (pc = "Aborted" /\ Last(trace) \in FatalStages) =>
                /\ error # NoError
                /\ joined_gdf = NoGdf
                /\ reports = {}
                /\ output = NoOutput
          /\ (Running /\ trace # <<>>) => files = AllFiles
          /\ (Running /\ "Read" \in SeqToSet(trace)) =>
                /\ SeqToSet(REQUIRED_ZONING_COLUMNS) \subseteq SeqToSet(raw["zoning"].gdf.cols)
                /\ SeqToSet(REQUIRED_PARCEL_COLUMNS) \subseteq SeqToSet(raw["parcels"].gdf.cols)
          /\ (Running /\ "ColumnsValidated" \in SeqToSet(trace)) =>
                /\ ColumnValidator_validate(zoning_gdf, REQUIRED_ZONING_COLUMNS).ok
                /\ ColumnValidator_validate(parcels_gdf, REQUIRED_PARCEL_COLUMNS).ok
          /\ (Running /\ "CRSHarmonized" \in SeqToSet(trace)) =>
                /\ raw["zoning"].gdf.crs # CrsNone
                /\ raw["parcels"].gdf.crs # CrsNone)
    /\ [][pc = "Aborted" => pc' = "Start" /\ trace' = <<>> /\ joined_gdf' = NoGdf
                            /\ reports' = reports /\ output' = output /\ cache' = cache]_vars

\* C3 witness: a call ended by the schema error of the parcel collection,
\* after both files were read.
C3_Witness ==
    /\ pc = "Aborted" /\ Last(trace) = "ColumnsValidated"
    /\ error = Raise("ValueError", "Missing required parcel columns")
    /\ joined_gdf = NoGdf

\* C4: the zoning-code validation and the spatial-relationship validation
\* never end the call: whatever they report, the step from ColumnsValidated
\* reaches CodesValidated and the step from CRSHarmonized reaches
\* SpatialChecked, with no exception and both collections as they were; and
\* the joined collection is the join of the two collections as CRS
\* harmonization left them, so it does not depend on what was reported.
C4_ValidationIssuesDoNotAbort ==
    /\ [][/\ pc = "ColumnsValidated" =>
                pc' = "CodesValidated" /\ error' = NoError
                /\ zoning_gdf' = zoning_gdf /\ parcels_gdf' = parcels_gdf
          /\ pc = "CRSHarmonized" =>
                pc' = "SpatialChecked" /\ error' = NoError
                /\ zoning_gdf' = zoning_gdf /\ parcels_gdf' = parcels_gdf
          /\ pc = "SpatialChecked" =>
                pc' = "Joined"
                /\ zoning_gdf' = zoning_gdf /\ parcels_gdf' = parcels_gdf
                /\ joined_gdf' = perform_spatial_join(zoning_gdf, parcels_gdf)]_vars

\* C4 witness: a call that reached the join after both validators reported issues.
C4_Witness ==
    /\ pc = "Joined"
    /\ Logged("Zoning code issues found:")
    /\ Logged("Spatial relationship issues found:")
    /\ Logged("invalid_chars") /\ Logged("unzoned_parcels")

\* C5: validate_input_files returns the two shapefile paths exactly when all
\* eight files exist; otherwise it raises FileNotFoundError naming a file
\* that is absent, and process_data ends at once: input validation is the
\* only stage entered, nothing has been read and no cache file written.
C5_MissingFileAborts ==
    LET r == validate_input_files(files)
    IN pc # "Idle" =>
        /\ (r.raised = NoError) <=> (AllFiles \subseteq files)
        /\ r.raised = NoError => r.paths = <<zoning_shp, parcels_shp>>
        /\ r.raised # NoError =>
              /\ r.raised.type = "FileNotFoundError"
              /\ r.raised.detail \in AllFiles \ files
        /\ (files # AllFiles /\ trace # <<>>) =>
              /\ pc = "Aborted"
              /\ trace = <<"InputValidated">>
              /\ error.type = "FileNotFoundError" /\ error.detail \in AllFiles \ files
              /\ zoning_gdf = NoGdf /\ parcels_gdf = NoGdf /\ joined_gdf = NoGdf
              /\ cache = [ds \in Datasets |-> NoCache]
              /\ log = <<>> /\ reports = {} /\ output = NoOutput

\* C5 witness: both shapefiles exist, a companion file does not, and the
\* call was ended by the error that names it.
C5_Witness ==
    /\ pc = "Aborted"
    /\ {zoning_shp, parcels_shp} \subseteq files
    /\ error = FileNotFound(File("parcels", ".prj"))

\* The calls of SpecUnit so far that were calls of op.
CallsOf(op) == {i \in 1..Len(u_calls) : u_calls[i].op = op}

\* The required columns that gdf lacks, and those it holds with no value in any row.
AbsentRequired(gdf, required) == {c \in SeqToSet(required) : c \notin SeqToSet(gdf.cols)}

EntirelyNullRequired(gdf, required) ==
    {c \in SeqToSet(required) \cap SeqToSet(gdf.cols) :
        \A i \in 1..Len(gdf.rows) : gdf.rows[i].attrs[c] = NULL}

IssuesOfKind(issues, kind) == {i \in 1..Len(issues) : issues[i].kind = kind}

\* C6: ColumnValidator.validate returns ok = false exactly when a required
\* column is absent or a present required column is null in every row.  Its
\* issue list holds one message naming all the absent columns when there is
\* any, and one message for each entirely-null required column, and nothing
\* else.
C6_ColumnValidation ==
    \A i \in CallsOf("ColumnValidator.validate") :
        LET gdf == u_calls[i].arg
            required == u_calls[i].required
            absent == AbsentRequired(gdf, required)
            allnull == EntirelyNullRequired(gdf, required)
            issues == u_ret[i].issues
            missing_msgs == IssuesOfKind(issues, "missing")
            null_msgs == IssuesOfKind(issues, "all_null")
        IN /\ u_ret[i].ok = FALSE <=> (absent # {} \/ allnull # {})
           /\ Cardinality(missing_msgs) = (IF absent = {} THEN 0 ELSE 1)
           /\ \A k \in missing_msgs : SeqToSet(issues[k].cols) = absent
           /\ Cardinality(null_msgs) = Cardinality(allnull)
           /\ {issues[k].cols[1] : k \in null_msgs} = allnull
           /\ missing_msgs \cup null_msgs = 1..Len(issues)

\* C6 witness: a call on a collection that lacks one required column, holds
\* another with only nulls, and holds a third with a null in one row only.
C6_Witness ==
    \E i \in CallsOf("ColumnValidator.validate") :
        /\ u_calls[i].required = REQUIRED_ZONING_COLUMNS
        /\ AbsentRequired(u_calls[i].arg, REQUIRED_ZONING_COLUMNS) = {lu_bylaw}
        /\ EntirelyNullRequired(u_calls[i].arg, REQUIRED_ZONING_COLUMNS) = {lu_code}
        /\ Len(u_calls[i].arg.rows) >= 2
        /\ Len(u_ret[i].issues) = 2 /\ ~u_ret[i].ok

\* C6 witness of the passing case: all required columns present, one of
\* them null in some row but not in all.
C6_WitnessPass ==
    \E i \in CallsOf("ColumnValidator.validate") :
        /\ u_ret[i].ok
        /\ \E r \in 1..Len(u_calls[i].arg.rows) : u_calls[i].arg.rows[r].attrs[lu_code] = NULL

\* The characters the zoning-code pattern allows: A-Z, 0-9 and the hyphen.
StatedCodeChars ==
    {"A","B","C","D","E","F","G","H","I","J","K","L","M",
     "N","O","P","Q","R","S","T","U","V","W","X","Y","Z",
     "0","1","2","3","4","5","6","7","8","9","-"}

IssueCount(issues, kind) ==
    IF IssuesOfKind(issues, kind) = {} THEN 0
    ELSE issues[CHOOSE k \in IssuesOfKind(issues, kind) : TRUE].count

\* C8: ZoningCodeValidator.validate reports the number of null codes, the
\* number of empty-string codes and the number of codes holding a character
\* outside [A-Z0-9-], each in one message and only when the number is
\* positive; ok holds exactly when the three numbers are zero; without an
\* lu_code column the result is ok with no issue.
C8_ZoningCodeCounts ==
    \A i \in CallsOf("ZoningCodeValidator.validate") :
        LET gdf == u_calls[i].arg
            issues == u_ret[i].issues
            codes == [r \in 1..Len(gdf.rows) |-> gdf.rows[r].attrs[lu_code]]
            nulls == Cardinality({r \in 1..Len(gdf.rows) : codes[r].null})
            empties == Cardinality({r \in 1..Len(gdf.rows) :
                           ~codes[r].null /\ Len(codes[r].chars) = 0})
            bad == Cardinality({r \in 1..Len(gdf.rows) :
                       ~codes[r].null
                       /\ SeqToSet(codes[r].chars) \ StatedCodeChars # {}})
        IN IF lu_code \notin SeqToSet(gdf.cols)
           THEN u_ret[i].ok /\ issues = <<>>
           ELSE /\ IssueCount(issues, "null_codes") = nulls
                /\ IssueCount(issues, "empty_codes") = empties
                /\ IssueCount(issues, "invalid_chars") = bad
                /\ \A kind \in {"null_codes", "empty_codes", "invalid_chars"} :
                      Cardinality(IssuesOfKind(issues, kind)) <= 1
                /\ \A k \in 1..Len(issues) :
                      issues[k].kind \in {"null_codes", "empty_codes", "invalid_chars"}
                      /\ issues[k].count > 0
                /\ u_ret[i].ok <=> (nulls = 0 /\ empties = 0 /\ bad = 0)

\* C8 witness: a call on a collection with a null code, an empty code and a
\* code that starts with an allowed character and holds a space.
C8_Witness ==
    \E i \in CallsOf("ZoningCodeValidator.validate") :
        /\ lu_code \in SeqToSet(u_calls[i].arg.cols)
        /\ Len(u_ret[i].issues) = 3
        /\ \E r \in 1..Len(u_calls[i].arg.rows) : u_calls[i].arg.rows[r].attrs[lu_code] = code_space

\* C8 witness of the vacuous case: no lu_code column.
C8_WitnessAbsent ==
    \E i \in CallsOf("ZoningCodeValidator.validate") :
        /\ lu_code \notin SeqToSet(u_calls[i].arg.cols)
        /\ u_calls[i].arg.rows # <<>>
        /\ u_ret[i].ok

FixRoutines == {"GeometryValidator.fix_issues", "_validate_and_fix_geometries"}

\* C9: the collection returned by either geometry-fix routine holds no
\* invalid geometry and no empty geometry.
C9_FixLeavesNoInvalidNoEmpty ==
    \A i \in 1..Len(u_calls) :
        (u_calls[i].op \in FixRoutines /\ u_ret[i].raised = NoError) =>
            \A r \in 1..Len(u_ret[i].gdf.rows) :
                /\ is_valid(u_ret[i].gdf.rows[r].geom)
                /\ ~is_empty(u_ret[i].gdf.rows[r].geom)

\* C10: each geometry-fix routine is idempotent: called on the collection
\* its previous call returned, it returns that collection again, with the
\* same columns, rows, geometries, attributes and CRS.
C10_FixIsIdempotent ==
    \A i \in 1..(Len(u_calls) - 1) :
        (/\ u_calls[i].op \in FixRoutines
         /\ u_calls[i + 1].op = u_calls[i].op
         /\ u_ret[i].raised = NoError) =>
            /\ u_calls[i + 1].arg = u_ret[i].gdf
            /\ u_ret[i + 1].raised = NoError
            /\ u_ret[i + 1].gdf = u_ret[i].gdf

\* C10 witness: fix_issues called twice in a row, the first call having
\* repaired one geometry and dropped an empty row.
C10_Witness ==
    /\ Len(u_calls) >= 2
    /\ u_calls[1].op = "GeometryValidator.fix_issues"
    /\ u_calls[2].op = "GeometryValidator.fix_issues"
    /\ u_ret[1].raised = NoError
    /\ Len(u_ret[1].gdf.rows) < Len(u_calls[1].arg.rows)
    /\ \E r \in 1..Len(u_ret[1].gdf.rows) : u_ret[1].gdf.rows[r].geom = "bowtieMP"

\* C10 witness for the orchestrator's routine: two calls in a row, the
\* first having repaired a geometry into an empty one and dropped its row.
C10_WitnessOrchestrator ==
    /\ Len(u_calls) >= 2
    /\ u_calls[1].op = "_validate_and_fix_geometries"
    /\ u_calls[2].op = "_validate_and_fix_geometries"
    /\ u_ret[1].raised = NoError
    /\ Len(u_ret[1].gdf.rows) < Len(u_calls[1].arg.rows)

\* Some required column is absent from the zoning or the parcel shapefile.
RequiredColumnAbsent ==
    \/ AbsentRequired(raw["zoning"].gdf, REQUIRED_ZONING_COLUMNS) # {}
    \/ AbsentRequired(raw["parcels"].gdf, REQUIRED_PARCEL_COLUMNS) # {}

\* C7: when a required column is absent from an input collection (all files
\* being present), the call completes the read and the geometry fix and is
\* ended by column validation with the schema error, before CRS
\* harmonization, spatial validation and the join.
C7_AbsentColumnEndsAtColumnValidation ==
    (files = AllFiles /\ RequiredColumnAbsent /\ pc = "Aborted") =>
        /\ trace = <<"InputValidated", "ZoningRead", "Read", "GeometryFixed",
                     "ColumnsValidated">>
        /\ error.type = "ValueError"
        /\ error.detail \in {"Missing required zoning columns",
                             "Missing required parcel columns"}

\* C11: the geometry-fix stage never raises: whatever geometries the two
\* collections read hold, no call of process_data ends in that stage.
C11_GeometryFixNeverRaises ==
    ~(pc = "Aborted" /\ Last(trace) = "GeometryFixed")

C12_WitnessFixIssues ==
    \E i \in 1..Len(u_calls) :
        /\ u_calls[i].op = "GeometryValidator.fix_issues"
        /\ u_ret[i].raised = NoError
        /\ Len(u_calls[i].arg.rows) = 3
        /\ [k \in 1..3 |-> u_calls[i].arg.rows[k].geom] = <<"bowtie", "emptyPoly", "sqA">>
        /\ [k \in 1..Len(u_ret[i].gdf.rows) |-> u_ret[i].gdf.rows[k].geom]
              = <<"bowtieMP", "sqA">>

\* The CRS harmonization of the current call has acted.
CrsStageEntered == \E k \in 1..Len(trace) : trace[k] = "CRSHarmonized"

NaiveGeometriesError == Raise("ValueError", "Cannot transform naive geometries")

\* C14: when the zoning or the parcel collection has no CRS, the CRS
\* harmonization raises the geometry engine's "Cannot transform naive
\* geometries" error, process_data ends there with that error, no join is
\* performed and no output is written; with both CRS defined the stage does
\* not raise.
C14_UndefinedCrsAborts ==
    (pc # "Idle" /\ CrsStageEntered) =>
        IF zoning_gdf.crs = CrsNone \/ parcels_gdf.crs = CrsNone
        THEN /\ pc = "Aborted"
             /\ Last(trace) = "CRSHarmonized"
             /\ error = NaiveGeometriesError
             /\ joined_gdf = NoGdf
             /\ output = NoOutput
        ELSE ~(pc = "Aborted" /\ Last(trace) = "CRSHarmonized")

\* C14 witness: the zoning collection is reprojected, then the parcel
\* collection, which has no CRS, makes the stage raise.
C14_Witness ==
    /\ pc = "Aborted"
    /\ Last(trace) = "CRSHarmonized"
    /\ parcels_gdf.crs = CrsNone
    /\ zoning_gdf.crs = "EPSG:4326"
    /\ Logged("Reprojecting zoning data")
    /\ error = NaiveGeometriesError

\* The report stage of the current call has acted.
ReportStageEntered == \E k \in 1..Len(trace) : trace[k] = "Reported"

\* 100 * (parcels inside at least one zoning polygon) / (parcels), as the
\* fraction <<numerator, denominator>>; 0 when there is no parcel.
StatedCoverage(zoning, parcels) ==
    IF Len(parcels.rows) = 0 THEN <<0, 1>>
    ELSE <<100 * Cardinality({i \in 1..Len(parcels.rows) :
                \E j \in 1..Len(zoning.rows) :
                    /\ Cells(parcels.rows[i].geom) # {}
                    /\ Cells(parcels.rows[i].geom) \subseteq Cells(zoning.rows[j].geom)}),
           Len(parcels.rows)>>

\* C17: once the report stage has run, report generation has not raised and
\* the report written gives as coverage percentage 100 * (parcels with a
\* containing zoning polygon) / (parcels), or 0 when there is no parcel.
C17_CoveragePercentage ==
    (pc # "Idle" /\ ReportStageEntered) =>
        /\ ~(pc = "Aborted" /\ Last(trace) = "Reported")
        /\ \E f \in reports :
              /\ f.report.coverage_percentage = StatedCoverage(zoning_gdf, parcels_gdf)
              /\ f.report.coverage_percentage[1] <= 100 * f.report.coverage_percentage[2]

ReadFromCache == Logged("Reading (cached Parquet)")

\* C18: a read served from the Parquet cache gives the collection the read
\* of the raw file gives (the required columns and the geometry column, the
\* same rows, the same CRS), and does not raise.
C18_CacheReadEqualsRawRead ==
    (pc # "Idle" /\ ReadFromCache) =>
        /\ ~(pc = "Aborted" /\ Last(trace) \in {"ZoningRead", "Read"})
        /\ pc = "ZoningRead" =>
              zoning_gdf = Project(raw["zoning"].gdf, REQUIRED_ZONING_COLUMNS \o <<geometry>>)
        /\ pc = "Read" =>
              parcels_gdf = Project(raw["parcels"].gdf, REQUIRED_PARCEL_COLUMNS \o <<geometry>>)

\* Both files on disk hold zero features, with every required column, a
\* defined CRS and every companion file.
EmptyInputs ==
    /\ files = AllFiles
    /\ raw["zoning"].gdf.rows = <<>>
    /\ raw["parcels"].gdf.rows = <<>>
    /\ SeqToSet(REQUIRED_ZONING_COLUMNS) \subseteq SeqToSet(raw["zoning"].gdf.cols)
    /\ SeqToSet(REQUIRED_PARCEL_COLUMNS) \subseteq SeqToSet(raw["parcels"].gdf.cols)
    /\ raw["zoning"].gdf.crs # CrsNone
    /\ raw["parcels"].gdf.crs # CrsNone

\* C19: process_data on zero-feature inputs does not raise, and the joined
\* collection it returns has zero rows.
C19_EmptyInputsComplete ==
    (pc # "Idle" /\ EmptyInputs) =>
        /\ pc # "Aborted"
        /\ pc = "Done" => Len(output.rows) = 0

CrsCall(i) == u_calls[i].op = "_ensure_consistent_crs"

Reprojected(i, msg) == \E k \in 1..Len(u_ret[i].log) : u_ret[i].log[k].msg = msg

\* C13: _ensure_consistent_crs on two collections with defined CRS returns
\* both tagged with the target CRS; a collection already in the target CRS
\* is returned as it was, without reprojection; and a second call on the
\* pair the first call returned reprojects nothing and returns that pair.
C13_CrsHarmonization ==
    \A i \in 1..Len(u_calls) :
        (/\ CrsCall(i)
         /\ u_calls[i].arg.zoning.crs # CrsNone
         /\ u_calls[i].arg.parcels.crs # CrsNone) =>
            /\ u_ret[i].raised = NoError
            /\ u_ret[i].zoning.crs = TARGET_CRS
            /\ u_ret[i].parcels.crs = TARGET_CRS
            /\ u_calls[i].arg.zoning.crs = TARGET_CRS =>
                  /\ u_ret[i].zoning = u_calls[i].arg.zoning
                  /\ ~Reprojected(i, "Reprojecting zoning data")
            /\ u_calls[i].arg.parcels.crs = TARGET_CRS =>
                  /\ u_ret[i].parcels = u_calls[i].arg.parcels
                  /\ ~Reprojected(i, "Reprojecting parcels data")
            /\ (i > 1 /\ CrsCall(i - 1) /\ u_ret[i - 1].raised = NoError) =>
                  /\ u_calls[i].arg.zoning = u_ret[i - 1].zoning
                  /\ u_calls[i].arg.parcels = u_ret[i - 1].parcels
                  /\ u_ret[i].zoning = u_ret[i - 1].zoning
                  /\ u_ret[i].parcels = u_ret[i - 1].parcels
                  /\ u_ret[i].log = <<>>

\* C13 witness: two calls in a row, the first reprojecting both collections
\* from other CRS, the second returning the harmonized pair as it is.
C13_Witness ==
    /\ Len(u_calls) >= 2
    /\ CrsCall(1) /\ CrsCall(2)
    /\ u_calls[1].arg.zoning.crs = "EPSG:4326"
    /\ u_calls[1].arg.parcels.crs = "EPSG:3776"
    /\ Reprojected(1, "Reprojecting zoning data")
    /\ Reprojected(1, "Reprojecting parcels data")
    /\ u_ret[2].raised = NoError
    /\ u_ret[2].zoning = u_ret[1].zoning

\* C13 witness: a pair of which only the parcel collection is reprojected.
C13_WitnessUntouched ==
    /\ Len(u_calls) >= 1
    /\ CrsCall(1)
    /\ u_calls[1].arg.zoning.crs = TARGET_CRS
    /\ u_calls[1].arg.parcels.crs = "EPSG:3776"
    /\ u_ret[1].zoning = u_calls[1].arg.zoning
    /\ u_ret[1].parcels.crs = TARGET_CRS

JoinCall(i) == u_calls[i].op = "_perform_spatial_join"

\* The zoning polygons that contain the geometry g.
Containing(zoning, g) ==
    {j \in 1..Len(zoning.rows) :
        Cells(g) # {} /\ Cells(g) \subseteq Cells(zoning.rows[j].geom)}

\* max(1, k) for the parcel at position i.
RowsFor(zoning, parcels, i) ==
    IF Containing(zoning, parcels.rows[i].geom) = {} THEN 1
    ELSE Cardinality(Containing(zoning, parcels.rows[i].geom))

RECURSIVE RowsUpTo(_, _, _)
\* The joined rows owed to the first n parcels.
RowsUpTo(zoning, parcels, n) ==
    IF n = 0 THEN 0 ELSE RowsUpTo(zoning, parcels, n - 1) + RowsFor(zoning, parcels, n)

\* The name a zoning column has after the join.
JoinedName(c, parcels) == IF c \in AttrCols(parcels.cols) THEN c \o suffix_right ELSE c

\* The zoning columns present in the joined collection.
ZoningColsIn(zoning, parcels, joined) ==
    {c \in AttrCols(zoning.cols) : JoinedName(c, parcels) \in SeqToSet(joined.cols)}

\* The zoning attributes a joined row carries.
ZoningPart(row, cols, parcels) == [c \in cols |-> row.attrs[JoinedName(c, parcels)]]

\* C15: the joined collection holds, parcel after parcel, max(1, k) rows for
\* each input parcel, k being the number of zoning polygons that contain it,
\* and no other row; each of these rows has the parcel's geometry; with
\* k = 0 the row has null in every zoning attribute, otherwise the rows carry
\* the attributes of the containing polygons, one row for each.
C15_LeftJoinRows ==
    \A i \in 1..Len(u_calls) :
        JoinCall(i) =>
            LET zoning == u_calls[i].arg.zoning
                parcels == u_calls[i].arg.parcels
                joined == u_ret[i].gdf
                zcols == ZoningColsIn(zoning, parcels, joined)
            IN /\ Len(joined.rows) = RowsUpTo(zoning, parcels, Len(parcels.rows))
               /\ \A n \in 1..Len(parcels.rows) :
                     LET first == RowsUpTo(zoning, parcels, n - 1) + 1
                         last == RowsUpTo(zoning, parcels, n)
                         ks == Containing(zoning, parcels.rows[n].geom)
                     IN /\ \A r \in first..last :
                              joined.rows[r].geom = parcels.rows[n].geom
                        /\ ks = {} =>
                              \A c \in zcols :
                                  joined.rows[first].attrs[JoinedName(c, parcels)] = NULL
                        /\ ks # {} =>
                              /\ \A j \in ks : \E r \in first..last :
                                    ZoningPart(joined.rows[r], zcols, parcels)
                                        = [c \in zcols |-> zoning.rows[j].attrs[c]]
                              /\ \A r \in first..last : \E j \in ks :
                                    ZoningPart(joined.rows[r], zcols, parcels)
                                        = [c \in zcols |-> zoning.rows[j].attrs[c]]

\* C15 witness: a parcel inside two zoning polygons gives two rows, each
\* with the parcel's geometry and one polygon's lu_code.
C15_Witness ==
    \E i \in 1..Len(u_calls) :
        /\ JoinCall(i)
        /\ Len(u_calls[i].arg.parcels.rows) = 1
        /\ Cardinality(Containing(u_calls[i].arg.zoning, u_calls[i].arg.parcels.rows[1].geom)) = 2
        /\ Len(u_ret[i].gdf.rows) = 2
        /\ u_ret[i].gdf.rows[1].attrs[lu_code] # u_ret[i].gdf.rows[2].attrs[lu_code]

\* C15 witness: a parcel that overlaps a zoning polygon without lying inside
\* it gives one row with a null lu_code.
C15_WitnessUnmatched ==
    \E i \in 1..Len(u_calls) :
        /\ JoinCall(i)
        /\ Len(u_calls[i].arg.parcels.rows) = 1
        /\ u_calls[i].arg.parcels.rows[1].geom = "sqAB"
        /\ Len(u_calls[i].arg.zoning.rows) >= 1
        /\ \A j \in 1..Len(u_calls[i].arg.zoning.rows) :
              u_calls[i].arg.zoning.rows[j].geom = "sqA"
        /\ Len(u_ret[i].gdf.rows) = 1
        /\ u_ret[i].gdf.rows[1].attrs[lu_code] = NULL

\* The name a parcel column has after the join.
JoinedParcelName(c, zoning) == IF c \in AttrCols(zoning.cols) THEN c \o suffix_left ELSE c

\* The non-geometry columns of the join before the column selection.
JoinedAttributes(zoning, parcels) ==
    {JoinedParcelName(c, zoning) : c \in AttrCols(parcels.cols)}
    \cup {index_right}
    \cup {JoinedName(c, parcels) : c \in AttrCols(zoning.cols)}

\* C16: the collection _perform_spatial_join returns has as columns the
\* geometry, every zoning attribute whose name starts with ZONE_, LAND_USE_,
\* lu_ or dc_, and those of roll_numbe, address, land_use_d, property_t that
\* are present, and nothing else; when no joined column has such a prefix it
\* has the geometry and every non-geometry column of the join.  The geometry
\* column occurs once.
C16_JoinedColumns ==
    \A i \in 1..Len(u_calls) :
        JoinCall(i) =>
            LET zoning == u_calls[i].arg.zoning
                parcels == u_calls[i].arg.parcels
                joined == u_ret[i].gdf
                all == JoinedAttributes(zoning, parcels)
                zoning_prefixed ==
                    {n \in {JoinedName(c, parcels) : c \in AttrCols(zoning.cols)} :
                        HasZoningPrefix(n)}
            IN /\ Cardinality({k \in 1..Len(joined.cols) : joined.cols[k] = geometry}) = 1
               /\ SeqToSet(joined.cols) =
                     IF \E n \in all : HasZoningPrefix(n)
                     THEN {geometry} \cup zoning_prefixed
                          \cup (SeqToSet(REQUIRED_PARCEL_COLUMNS) \cap all)
                     ELSE {geometry} \cup all

SpatialCall(i) == u_calls[i].op = "SpatialRelationshipValidator.validate"

\* Two different zoning polygons share some area.
SomePairOverlaps(zoning) ==
    \E a, b \in 1..Len(zoning.rows) :
        a # b /\ Cells(zoning.rows[a].geom) \cap Cells(zoning.rows[b].geom) # {}

\* The parcels that lie inside no zoning polygon.
Unzoned(zoning, parcels) ==
    {n \in 1..Len(parcels.rows) : Containing(zoning, parcels.rows[n].geom) = {}}

\* C20: SpatialRelationshipValidator.validate reports overlapping zoning
\* districts if and only if two different zoning polygons overlap; it
\* reports unzoned parcels, with their number, if and only if some parcel
\* lies inside no zoning polygon; ok is true if and only if it reports
\* nothing.
C20_SpatialValidation ==
    \A i \in 1..Len(u_calls) :
        SpatialCall(i) =>
            LET zoning == u_calls[i].arg.zoning
                parcels == u_calls[i].arg.parcels
                issues == u_ret[i].issues
                unzoned == Cardinality(Unzoned(zoning, parcels))
            IN /\ IssuesOfKind(issues, "overlapping_districts") # {}
                     <=> SomePairOverlaps(zoning)
               /\ Cardinality(IssuesOfKind(issues, "unzoned_parcels")) =
                     IF unzoned > 0 THEN 1 ELSE 0
               /\ \A k \in IssuesOfKind(issues, "unzoned_parcels") :
                     issues[k].count = unzoned
               /\ u_ret[i].ok <=> issues = <<>>

\* C21: whenever a read is about to be served from the Parquet cache (the
\* cache file is strictly newer than the .shp file), the cache holds what
\* reading the raw dataset as it is now would return, whatever runs and
\* modifications of the raw dataset came before.
C21_CacheServedIsCurrent ==
    /\ (pc = "InputValidated" /\ CacheIsFresh(cache["zoning"], raw["zoning"].mtime)) =>
          cache["zoning"].gdf = Project(raw["zoning"].gdf, REQUIRED_ZONING_COLUMNS \o <<geometry>>)
    /\ (pc = "ZoningRead" /\ CacheIsFresh(cache["parcels"], raw["parcels"].mtime)) =>
          cache["parcels"].gdf = Project(raw["parcels"].gdf, REQUIRED_PARCEL_COLUMNS \o <<geometry>>)

\* C22: on a collection of more than PARALLEL_THRESHOLD features that holds
\* an invalid geometry, _validate_and_fix_geometries gives exactly what the
\* sequential repair of the same collection gives: the rows in their
\* original order, each invalid geometry repaired, no valid row written.
C22_PoolRepairEqualsSequential ==
    \A i \in 1..Len(u_calls) :
        LET arg == u_calls[i].arg
        IN (/\ u_calls[i].op = "_validate_and_fix_geometries"
            /\ FeatureCount(arg) > PARALLEL_THRESHOLD
            /\ InvalidMask(arg) # {}) =>
               u_ret[i] = sequential_fix(arg, InvalidMask(arg))

ValidatorStages == {"ColumnsValidated", "CodesValidated", "SpatialChecked"}

\* C24: ColumnValidator.validate, ZoningCodeValidator.validate and
\* SpatialRelationshipValidator.validate are read-only: the step that calls
\* one of them, whether it returns or raises, leaves the zoning collection
\* and the parcel collection as they were (same rows in the same order,
\* same attribute values, same geometries, same CRS).
C24_ValidatorsReadOnly ==
    [][(Len(trace') = Len(trace) + 1 /\ Last(trace') \in ValidatorStages) =>
          (zoning_gdf' = zoning_gdf /\ parcels_gdf' = parcels_gdf)]_vars

\* C24 witness: a call in which the three validators ran on collections that
\* hold features, a null attribute value among them, and the zoning-code and
\* the spatial validator both found issues.
C24_Witness ==
    /\ pc = "SpatialChecked"
    /\ Logged("Zoning code issues found:")
    /\ Logged("Spatial relationship issues found:")
    /\ Len(parcels_gdf.rows) > 0
    /\ \E i \in 1..Len(zoning_gdf.rows) :
          \E c \in DOMAIN zoning_gdf.rows[i].attrs : zoning_gdf.rows[i].attrs[c] = NULL

\* The chunks put together hold the records 0 .. n - 1 of the remote
\* dataset, each once, in the order of the remote dataset.
Covers(chunks, n) ==
    /\ Len(chunks) > 0
    /\ chunks[1].first = 0
    /\ \A k \in 1..Len(chunks) : chunks[k].count > 0
    /\ \A k \in 1..(Len(chunks) - 1) : chunks[k + 1].first = chunks[k].first + chunks[k].count
    /\ chunks[Len(chunks)].first + chunks[Len(chunks)].count = n

\* The call is over.
FetchOver == dm_pc \in {"Returned", "Raised"}

\* The call went to the remote dataset (the cache did not serve it).
CacheMiss == dm_pc \in {"Fetching", "Fetched"} \/ (FetchOver /\ requests # <<>>)

\* What holds of the paginated fetch at every point of the call.
PaginationHolds ==
    /\ \A k \in 1..Len(requests) : requests[k] = (k - 1) * limit
    /\ Len(requests) <= remote \div limit + 1
    /\ \A k \in 1..(Len(requests) - 1) :
          read_file_url(remote, limit, requests[k]).count = limit
    /\ (dm_pc = "Fetched" \/ (dm_pc = "Returned" /\ requests # <<>>)) =>
          read_file_url(remote, limit, Last(requests)).count < limit
    /\ (dm_pc = "Returned" /\ requests # <<>>) =>
          /\ dm_ret.raised = NoError
          /\ Covers(dm_ret.gdf.chunks, remote)
    /\ (CacheMiss /\ FetchOver /\ remote = 0) =>
          /\ dm_pc = "Raised"
          /\ dm_ret.raised # NoError
    /\ dm_pc = "Returned" => dm_ret.gdf.chunks # <<>>
    /\ dm_cache.exists => dm_cache.gdf.chunks # <<>>

\* C25: on a cache miss the paginated fetch of get_parcel_boundaries ends,
\* whatever the size of the remote dataset: it requests the chunks at the
\* offsets 0, limit, 2 * limit, ..., stops at the first empty chunk or the
\* first chunk shorter than limit, returns every remote record once in fetch
\* order, and raises, without returning or caching an empty collection, when
\* the first chunk is empty.
C25_PaginatedFetchTerminates ==
    /\ []PaginationHolds
    /\ <>FetchOver

\* C25 witness: a remote dataset of two full chunks: the third request gets
\* the empty chunk and the call returns the two chunks put together.
C25_Witness ==
    /\ dm_pc = "Returned"
    /\ remote = 2 * limit
    /\ requests = <<0, limit, 2 * limit>>
    /\ dm_ret.gdf.chunks = <<Chunk(0, limit), Chunk(limit, limit)>>
    /\ dm_cache = saved_cache(dm_ret.gdf)

====
